---- MODULE Spec2Model ----
(***************************************************************************)
(* Icarus: session lifecycle (record store + dashboard client) and the     *)
(* scoring functions.                                                      *)
(*                                                                         *)
(* The dashboard (App.svelte, sessionStore.js, DataLogs.svelte) is         *)
(* translated from the client sources.  The Python record store / session  *)
(* service that answers /api/sessions... is not among the sources; its     *)
(* operations (Srv...) are modelled from the specification, sections 4.1   *)
(* and 5.                                                                  *)
(***************************************************************************)
EXTENDS Integers, FiniteSets, Sequences, TLC

\* ------------------------------------------------------------------ bounds
MaxSessions == 2      \* session ids the store hands out
MaxTasks    == 1      \* tasks in the queue
MaxHandlers == 2      \* async handlers of the page that may be in flight
MaxCallers  == 2      \* concurrent callers of the lifecycle manager

\* --------------------------------------------------------------- constants
MaxRating   == 5      \* progress / focus / quality ratings are 1..5
MaxEnergy   == 10     \* energy / stress are 1..10

SessionIds == 1..MaxSessions
TaskIds    == 1..MaxTasks
Slots      == 1..MaxHandlers
Callers    == 1..MaxCallers
WorkTypes  == {"Deep", "Shallow"}
Errors     == {"ConflictError", "NotFoundError", "InvalidStateError", "ValidationError"}

VARIABLES
    \* record store (server)
    sessions,        \* id -> Session record, for the ids that exist
    nextId,          \* next session id
    clock,           \* server time: number of end() writes so far
    tasks,           \* ids of the queued tasks
    \* callers of the lifecycle manager
    cpc,             \* per caller: "idle", or "create" between start()'s check and its write
    last,            \* the call that completed last, with its result
    \* sessionStore.js
    active,          \* $sessionStore.active
    \* App.svelte
    showStartModal, showEndModal, isHudVisible,
    pendingTaskId,   \* 0 stands for null
    newSession,      \* start form: context and work type
    endWt,           \* endSessionData.work_type
    h,               \* the async handlers in flight, one per slot
    \* history
    putSent,         \* work-type updates the dashboard has sent
    startedFrom,     \* tasks whose context a successful start carried
    \* scoring
    rated,           \* the session handed to getSessionScore
    shown,           \* the scores the three views computed for it
    \* derived metrics
    given,           \* the records a view has loaded
    computed,        \* the values the view derived from them, by name
    \* one component with its requests
    ui,              \* the component's fields, by name
    db,              \* what the server holds for it
    net              \* its requests and handlers in flight

storeVars == <<sessions, nextId, clock, tasks>>
callVars  == <<cpc, last>>
pageVars  == <<active, showStartModal, showEndModal, isHudVisible, pendingTaskId,
               newSession, endWt, h, putSent, startedFrom>>
metricVars == <<rated, shown, given, computed>>
viewVars  == <<ui, db, net>>
scoreVars == <<metricVars, viewVars>>
vars      == <<sessions, nextId, clock, tasks, cpc, last, active, showStartModal,
               showEndModal, isHudVisible, pendingTaskId, newSession, endWt, h, putSent,
               startedFrom, rated, shown, given, computed, ui, db, net>>

\* ------------------------------------------------------------------ values
NoActive == [id |-> 0, work_type |-> "none"]

\* The end form as the operator may have filled it in: status, energy_after.
\* The number inputs accept typed values outside min/max, hence the third form.
EndForms == { [o |-> "Completed", a |-> 7],
              [o |-> "Blocked",   a |-> 3],
              [o |-> "Completed", a |-> MaxEnergy + 1] }

\* the forms the dashboard model submits: one within bounds, one outside
PageForms == { f \in EndForms : f.o = "Completed" }

\* Tasks come from the quick-capture form (Deep) or from the HUD scratchpad (Shallow).
TaskWorkType(t) == IF t % 2 = 1 THEN "Deep" ELSE "Shallow"

Idle == [kind |-> "idle", pc |-> "-", id |-> 0, wt |-> "none", ctx |-> 0, task |-> 0,
         o |-> "none", a |-> 0, ok |-> TRUE, res |-> "none"]

Refresh == [Idle EXCEPT !.kind = "refresh", !.pc = "active"]

FreeSlot(i) == /\ h[i].kind = "idle"
               /\ \A j \in Slots : j < i => h[j].kind # "idle"

\* ------------------------------------------------ record store (from spec)
OpenSessions(ss) == { i \in DOMAIN ss : ss[i].end_time = 0 }

NewRecord(wt) ==
    [work_type |-> wt, end_time |-> 0, outcome |-> "none", after |-> 0]

Created(ss, id, wt) ==
    [j \in DOMAIN ss \cup {id} |-> IF j = id THEN NewRecord(wt) ELSE ss[j]]

\* start(): the precondition check
StartCheck_ValidateFirst(ss, ok) ==
    IF ~ok THEN "ValidationError"
    ELSE IF OpenSessions(ss) # {} THEN "ConflictError"
    ELSE "pass"

StartCheck(ss, ok) ==
    IF OpenSessions(ss) # {} THEN "ConflictError"
    ELSE IF ~ok THEN "ValidationError"
    ELSE "pass"

\* start(): the uniqueness constraint of the storage boundary, at creation
CreateAllowed_Unconstrained(ss) == TRUE

CreateAllowed(ss) == OpenSessions(ss) = {}

\* end(): the result for a session id and an after-state
EndResult_ReEnd(ss, id, a) ==
    IF id \notin DOMAIN ss THEN "NotFoundError"
    ELSE IF a \notin 1..MaxEnergy THEN "ValidationError"
    ELSE "ok"

EndResult(ss, id, a) ==
    IF id \notin DOMAIN ss THEN "NotFoundError"
    ELSE IF ss[id].end_time # 0 THEN "InvalidStateError"
    ELSE IF a \notin 1..MaxEnergy THEN "ValidationError"
    ELSE "ok"

\* end(): the write
EndWrite_Torn(ss, id, t, o, a) == [ss EXCEPT ![id].end_time = t]

EndWrite(ss, id, t, o, a) ==
    [ss EXCEPT ![id].end_time = t, ![id].outcome = o, ![id].after = a]

\* correctWorkType()
CorrectResult_AnyState(ss, id) ==
    IF id \notin DOMAIN ss THEN "NotFoundError" ELSE "ok"

CorrectResult(ss, id) ==
    IF id \notin DOMAIN ss THEN "NotFoundError"
    ELSE IF ss[id].end_time = 0 THEN "InvalidStateError"
    ELSE "ok"

\* delete(): hard delete
DeleteWrite_Soft(ss, id) == ss

DeleteWrite(ss, id) == [i \in DOMAIN ss \ {id} |-> ss[i]]

\* getActiveSession()
GetActive(ss) ==
    IF OpenSessions(ss) = {} THEN NoActive
    ELSE LET i == CHOOSE j \in OpenSessions(ss) : \A k \in OpenSessions(ss) : j <= k
         IN  [id |-> i, work_type |-> ss[i].work_type]

\* ------------------------------- lifecycle manager under concurrent callers
NoCall == [op |-> "none", id |-> 0, wt |-> "none", res |-> "none", seq |-> 0]

Done(op, id, wt, res) == [op |-> op, id |-> id, wt |-> wt, res |-> res, seq |-> 1 - last.seq]

\* start(context, before_state), first half: the precondition check
LM_StartCheck(c) ==
    /\ cpc[c] = "idle"
    /\ \E ok \in BOOLEAN :
         LET r == StartCheck(sessions, ok)
         IN  IF r = "pass"
             THEN cpc' = [cpc EXCEPT ![c] = "create"] /\ UNCHANGED last
             ELSE last' = Done("start", 0, "none", r) /\ UNCHANGED cpc
    /\ UNCHANGED <<storeVars, scoreVars, pageVars>>

\* start(context, before_state), second half: the record is created
LM_StartCreate(c) ==
    /\ cpc[c] = "create"
    /\ cpc' = [cpc EXCEPT ![c] = "idle"]
    /\ IF CreateAllowed(sessions)
       THEN /\ nextId <= MaxSessions
            /\ sessions' = Created(sessions, nextId, "Deep")
            /\ nextId' = nextId + 1
            /\ last' = Done("start", nextId, "none", "ok")
       ELSE /\ last' = Done("start", 0, "none", "ConflictError")
            /\ UNCHANGED <<sessions, nextId>>
    /\ UNCHANGED <<clock, tasks, scoreVars, pageVars>>

\* end(sessionId, outcome, after_state)
LM_End(id, f) ==
    /\ LET r == EndResult(sessions, id, f.a)
       IN  /\ last' = Done("end", id, "none", r)
           /\ IF r = "ok"
              THEN /\ sessions' = EndWrite(sessions, id, clock + 1, f.o, f.a)
                   /\ clock' = clock + 1
              ELSE UNCHANGED <<sessions, clock>>
    /\ UNCHANGED <<nextId, tasks, cpc, scoreVars, pageVars>>

\* correctWorkType(sessionId, newWorkType)
LM_CorrectWorkType(id, wt) ==
    /\ LET r == CorrectResult(sessions, id)
       IN  /\ last' = Done("correct", id, wt, r)
           /\ sessions' = IF r = "ok" THEN [sessions EXCEPT ![id].work_type = wt]
                          ELSE sessions
    /\ UNCHANGED <<nextId, clock, tasks, cpc, scoreVars, pageVars>>

\* delete(sessionId)
LM_Delete(id) ==
    /\ id < nextId
    /\ sessions' = DeleteWrite(sessions, id)
    /\ last' = Done("delete", id, "none", "ok")
    /\ UNCHANGED <<nextId, clock, tasks, cpc, scoreVars, pageVars>>

\* ------------------------------------- the server behind the dashboard's requests
\* POST /sessions: the check of start()
SrvStartCheck(i) ==
    /\ h[i].kind = "start" /\ h[i].pc = "check"
    /\ LET r == StartCheck(sessions, h[i].ok)
       IN  h' = [h EXCEPT ![i] = IF r = "pass" THEN [@ EXCEPT !.pc = "create"]
                                 ELSE [@ EXCEPT !.pc = "resp", !.res = r]]
    /\ UNCHANGED <<storeVars, callVars, scoreVars, active, showStartModal, showEndModal,
                   isHudVisible, pendingTaskId, newSession, endWt, putSent, startedFrom>>

\* POST /sessions: the write of start()
SrvStartCreate(i) ==
    /\ h[i].kind = "start" /\ h[i].pc = "create"
    /\ IF CreateAllowed(sessions)
       THEN /\ nextId <= MaxSessions
            /\ sessions' = Created(sessions, nextId, h[i].wt)
            /\ nextId' = nextId + 1
            /\ h' = [h EXCEPT ![i] = [@ EXCEPT !.pc = "resp", !.res = "ok", !.id = nextId]]
            /\ startedFrom' = IF h[i].ctx # 0 THEN startedFrom \cup {h[i].ctx}
                              ELSE startedFrom
       ELSE /\ h' = [h EXCEPT ![i] = [@ EXCEPT !.pc = "resp", !.res = "ConflictError"]]
            /\ UNCHANGED <<sessions, nextId, startedFrom>>
    /\ UNCHANGED <<clock, tasks, callVars, scoreVars, active, showStartModal, showEndModal,
                   isHudVisible, pendingTaskId, newSession, endWt, putSent>>

\* POST /sessions/<id>/end, and the PUT /sessions/<id>/work-type that
\* confirmEndSession sends after it
SrvEnd(i) ==
    /\ h[i].kind = "stop" /\ h[i].pc \in {"srv", "put"}
    /\ IF h[i].pc = "srv"
       THEN LET r == EndResult(sessions, h[i].id, h[i].a)
            IN  /\ h' = [h EXCEPT ![i] = [@ EXCEPT !.pc = "resp", !.res = r]]
                /\ IF r = "ok"
                   THEN /\ sessions' = EndWrite(sessions, h[i].id, clock + 1, h[i].o, h[i].a)
                        /\ clock' = clock + 1
                   ELSE UNCHANGED <<sessions, clock>>
       ELSE LET r == CorrectResult(sessions, h[i].id)
            IN  /\ h' = [h EXCEPT ![i] = [@ EXCEPT !.pc = "putResp", !.res = r]]
                /\ sessions' = IF r = "ok"
                               THEN [sessions EXCEPT ![h[i].id].work_type = h[i].wt]
                               ELSE sessions
                /\ UNCHANGED clock
    /\ UNCHANGED <<nextId, tasks, callVars, scoreVars, active, showStartModal, showEndModal,
                   isHudVisible, pendingTaskId, newSession, endWt, putSent, startedFrom>>

\* DELETE /tasks/<id>
SrvDeleteTask(i) ==
    /\ h[i].kind = "start" /\ h[i].pc = "delTask"
    /\ tasks' = tasks \ {h[i].task}
    /\ h' = [h EXCEPT ![i] = [@ EXCEPT !.pc = "delTaskResp"]]
    /\ UNCHANGED <<sessions, nextId, clock, callVars, scoreVars, active, showStartModal, showEndModal,
                   isHudVisible, pendingTaskId, newSession, endWt, putSent, startedFrom>>

\* GET /sessions/active; the request may also fail
SrvGetActive(i) ==
    /\ h[i].kind = "refresh" /\ h[i].pc = "active"
    /\ \E up \in BOOLEAN :
         h' = [h EXCEPT ![i] =
                 IF up THEN LET s == GetActive(sessions)
                            IN  [@ EXCEPT !.pc = "activeResp", !.res = "ok",
                                          !.id = s.id, !.wt = s.work_type]
                 ELSE [@ EXCEPT !.pc = "activeResp", !.res = "failed"]]
    /\ UNCHANGED <<storeVars, callVars, scoreVars, active, showStartModal, showEndModal,
                   isHudVisible, pendingTaskId, newSession, endWt, putSent, startedFrom>>

\* -------------------------------------------------------- sessionStore.js
\* start: `const session = await post(...)` throws on a rejected request, before update()
StoreStart(res, act, session) == IF res = "ok" THEN session ELSE act

\* stop: update(active: null) runs after the awaited request, only if it did not throw
StoreStop_Optimistic(res, act) == NoActive

StoreStop(res, act) == IF res = "ok" THEN NoActive ELSE act

\* checkActive: the catch branch leaves active as it is
StoreCheckActive(res, act, session) == IF res = "ok" THEN session ELSE act

\* ------------------------------------------------------------ App.svelte
HudShown  == active.id # 0 /\ isHudVisible
ModalOpen == showStartModal \/ showEndModal
PageClickable == ~HudShown /\ ~ModalOpen

\* $: if (showEndModal && $sessionStore.active) endSessionData.work_type = ...
\* runs after every change of showEndModal or of the store value
ReactEndWt(show, act, cur) == IF show /\ act.id # 0 THEN act.work_type ELSE cur

\* "+ Initialize" button, rendered only without an active session
ClickInitialize ==
    /\ PageClickable /\ active.id = 0
    /\ pendingTaskId' = 0
    /\ showStartModal' = TRUE
    /\ UNCHANGED <<storeVars, callVars, scoreVars, active, showEndModal, isHudVisible,
                   newSession, endWt, h, putSent, startedFrom>>

activateTask(t) ==
    /\ PageClickable /\ t \in tasks
    /\ newSession' = [ctx |-> t, work_type |-> TaskWorkType(t)]
    /\ pendingTaskId' = t
    /\ showStartModal' = TRUE
    /\ UNCHANGED <<storeVars, callVars, scoreVars, active, showEndModal, isHudVisible,
                   endWt, h, putSent, startedFrom>>

\* Cancel / close button of the start modal
CancelStart ==
    /\ showStartModal
    /\ showStartModal' = FALSE
    /\ UNCHANGED <<storeVars, callVars, scoreVars, active, showEndModal, isHudVisible,
                   pendingTaskId, newSession, endWt, h, putSent, startedFrom>>

\* handleStart up to its first await: sessionStore.start(newSession) posts the form.
\* ok: whether the form carries the required project name (a task always does).
handleStart(i) ==
    /\ showStartModal /\ FreeSlot(i)
    /\ \E ok \in BOOLEAN :
         /\ (newSession.ctx # 0 => ok)
         /\ h' = [h EXCEPT ![i] = [Idle EXCEPT !.kind = "start", !.pc = "check",
                                               !.ctx = newSession.ctx,
                                               !.wt = newSession.work_type, !.ok = ok]]
    /\ UNCHANGED <<storeVars, callVars, scoreVars, active, showStartModal, showEndModal,
                   isHudVisible, pendingTaskId, newSession, endWt, putSent, startedFrom>>

\* handleStart after `await sessionStore.start(...)`: a rejected request throws out of
\* the handler; otherwise the store is updated and the rest of the handler runs up to
\* `await deleteTask(pendingTaskId)` or to refreshData().
StartResolved(i) ==
    /\ h[i].kind = "start" /\ h[i].pc = "resp"
    /\ active' = StoreStart(h[i].res, active, [id |-> h[i].id, work_type |-> h[i].wt])
    /\ IF h[i].res # "ok"
       THEN /\ h' = [h EXCEPT ![i] = Idle]
            /\ UNCHANGED <<showStartModal, isHudVisible, endWt>>
       ELSE /\ showStartModal' = FALSE
            /\ isHudVisible' = TRUE
            /\ endWt' = ReactEndWt(showEndModal, active', endWt)
            /\ h' = [h EXCEPT ![i] = IF pendingTaskId # 0
                                     THEN [@ EXCEPT !.pc = "delTask", !.task = pendingTaskId]
                                     ELSE Refresh]
    /\ UNCHANGED <<storeVars, callVars, scoreVars, showEndModal, pendingTaskId,
                   newSession, putSent, startedFrom>>

\* handleStart after `await deleteTask(pendingTaskId)`
DeleteTaskResolved(i) ==
    /\ h[i].kind = "start" /\ h[i].pc = "delTaskResp"
    /\ pendingTaskId' = 0
    /\ h' = [h EXCEPT ![i] = Refresh]
    /\ UNCHANGED <<storeVars, callVars, scoreVars, active, showStartModal, showEndModal,
                   isHudVisible, newSession, endWt, putSent, startedFrom>>

\* ActiveHUD: Minimize / Escape
HudMinimize ==
    /\ HudShown
    /\ isHudVisible' = FALSE
    /\ UNCHANGED <<storeVars, callVars, scoreVars, active, showStartModal, showEndModal,
                   pendingTaskId, newSession, endWt, h, putSent, startedFrom>>

\* ticker button / Ctrl+Space
ShowHud ==
    /\ active.id # 0 /\ ~isHudVisible
    /\ isHudVisible' = TRUE
    /\ UNCHANGED <<storeVars, callVars, scoreVars, active, showStartModal, showEndModal,
                   pendingTaskId, newSession, endWt, h, putSent, startedFrom>>

\* ActiveHUD: Disengage
HudEnd ==
    /\ HudShown /\ ~ModalOpen
    /\ isHudVisible' = FALSE
    /\ showEndModal' = TRUE
    /\ endWt' = ReactEndWt(TRUE, active, endWt)
    /\ UNCHANGED <<storeVars, callVars, scoreVars, active, showStartModal,
                   pendingTaskId, newSession, h, putSent, startedFrom>>

\* <select bind:value={endSessionData.work_type}>
SelectEndWorkType(wt) ==
    /\ showEndModal /\ wt # endWt
    /\ endWt' = wt
    /\ UNCHANGED <<storeVars, callVars, scoreVars, active, showStartModal, showEndModal,
                   isHudVisible, pendingTaskId, newSession, h, putSent, startedFrom>>

\* Cancel / close button of the end modal
CancelEnd ==
    /\ showEndModal
    /\ showEndModal' = FALSE
    /\ UNCHANGED <<storeVars, callVars, scoreVars, active, showStartModal,
                   isHudVisible, pendingTaskId, newSession, endWt, h, putSent, startedFrom>>

\* confirmEndSession up to `await sessionStore.stop(id, endSessionData)`
confirmEndSession(i) ==
    /\ showEndModal /\ active.id # 0 /\ FreeSlot(i)
    /\ \E f \in PageForms :
         h' = [h EXCEPT ![i] = [Idle EXCEPT !.kind = "stop", !.pc = "srv", !.id = active.id,
                                            !.wt = endWt, !.o = f.o, !.a = f.a]]
    /\ UNCHANGED <<storeVars, callVars, scoreVars, active, showStartModal, showEndModal,
                   isHudVisible, pendingTaskId, newSession, endWt, putSent, startedFrom>>

\* the tail of confirmEndSession: close the modal, reset the form, refreshData()
EndTail(i) ==
    /\ showEndModal' = FALSE
    /\ isHudVisible' = FALSE
    /\ endWt' = "Deep"
    /\ h' = [h EXCEPT ![i] = Refresh]
    /\ UNCHANGED putSent

\* confirmEndSession after `await sessionStore.stop(...)` and after the awaited PUT.
\* stop() has updated the store before the handler reads
\* $sessionStore.active.context.work_type; reading a property of null throws out of
\* the handler.
StopResolved(i) ==
    /\ h[i].kind = "stop" /\ h[i].pc \in {"resp", "putResp"}
    /\ IF h[i].pc = "putResp"
       THEN EndTail(i) /\ UNCHANGED active
       ELSE /\ active' = StoreStop(h[i].res, active)
            /\ IF h[i].res # "ok" \/ active'.id = 0
               THEN /\ h' = [h EXCEPT ![i] = Idle]
                    /\ UNCHANGED <<showEndModal, isHudVisible, endWt, putSent>>
               ELSE IF h[i].wt # active'.work_type
               THEN /\ h' = [h EXCEPT ![i] = [@ EXCEPT !.pc = "put", !.id = active'.id]]
                    /\ putSent' = putSent \cup {[id |-> active'.id, wt |-> h[i].wt]}
                    /\ UNCHANGED <<showEndModal, isHudVisible, endWt>>
               ELSE EndTail(i)
    /\ UNCHANGED <<storeVars, callVars, scoreVars, showStartModal, pendingTaskId,
                   newSession, startedFrom>>

\* sessionStore.checkActive after `await get('/sessions/active')`, then refreshData's
\* `if ($sessionStore.active) isHudVisible = true`
CheckActiveResolved(i) ==
    /\ h[i].kind = "refresh" /\ h[i].pc = "activeResp"
    /\ active' = StoreCheckActive(h[i].res, active,
                                  IF h[i].id = 0 THEN NoActive
                                  ELSE [id |-> h[i].id, work_type |-> h[i].wt])
    /\ isHudVisible' = (IF active'.id # 0 THEN TRUE ELSE isHudVisible)
    /\ endWt' = IF h[i].res = "ok" THEN ReactEndWt(showEndModal, active', endWt) ELSE endWt
    /\ h' = [h EXCEPT ![i] = Idle]
    /\ UNCHANGED <<storeVars, callVars, scoreVars, showStartModal, showEndModal,
                   pendingTaskId, newSession, putSent, startedFrom>>

\* DataLogs.svelte handleDelete: the DELETE request, the server's hard delete and the
\* handler's continuation, which reloads the data-log view only
logsHandleDelete(id) ==
    /\ PageClickable /\ id \in DOMAIN sessions
    /\ sessions' = DeleteWrite(sessions, id)
    /\ UNCHANGED <<nextId, clock, tasks, callVars, scoreVars, pageVars>>

\* ------------------------------------------------------------------ scoring
\* Scores are kept exactly, in ninths of a point: the weighted sum
\* 2*progress + 1.5*focus + quality is a number of halves, and
\* (score / 22.5) * 100 = halves * 20 / 9; 100 points are 900 ninths.
Min(a, b) == IF a <= b THEN a ELSE b

\* App.svelte
getSessionScore(s) ==
    IF ~s.outcome THEN 0
    ELSE LET halves == s.progress_rating * 4 + s.focus_quality * 3 + s.quality_rating * 2
         IN  Min(900, halves * 20)

\* DataLogs.svelte
logsGetSessionScore_EqualWeights(s) ==
    IF ~s.outcome THEN 0
    ELSE LET halves == s.progress_rating * 3 + s.focus_quality * 3 + s.quality_rating * 3
         IN  Min(900, halves * 20)

logsGetSessionScore(s) ==
    IF ~s.outcome THEN 0
    ELSE LET halves == s.progress_rating * 4 + s.focus_quality * 3 + s.quality_rating * 2
         IN  Min(900, halves * 20)

\* StaticHorizon.svelte
horizonGetSessionScore(s) ==
    IF ~s.outcome THEN 0
    ELSE LET halves == s.progress_rating * 4 + s.focus_quality * 3 + s.quality_rating * 2
         IN  Min(900, halves * 20)

NoOutcome == [outcome |-> FALSE, progress_rating |-> 0, focus_quality |-> 0,
              quality_rating |-> 0]

\* the sessions a view may be handed: without an outcome, or rated 1..5 three times
RatedSessions ==
    {NoOutcome} \cup
    [outcome : {TRUE}, progress_rating : 1..MaxRating, focus_quality : 1..MaxRating,
     quality_rating : 1..MaxRating]

Views == {"dashboard", "logs", "horizon"}

Scored(view, score) ==
    [v \in DOMAIN shown \cup {view} |-> IF v = view THEN score ELSE shown[v]]

\* App.svelte renders the session's tick
dashboardScore ==
    /\ "dashboard" \notin DOMAIN shown
    /\ shown' = Scored("dashboard", getSessionScore(rated))
    /\ UNCHANGED <<storeVars, callVars, pageVars, rated, given, computed, viewVars>>

\* DataLogs.svelte renders the session's row
logsScore ==
    /\ "logs" \notin DOMAIN shown
    /\ shown' = Scored("logs", logsGetSessionScore(rated))
    /\ UNCHANGED <<storeVars, callVars, pageVars, rated, given, computed, viewVars>>

\* StaticHorizon.svelte renders the session's point
horizonScore ==
    /\ "horizon" \notin DOMAIN shown
    /\ shown' = Scored("horizon", horizonGetSessionScore(rated))
    /\ UNCHANGED <<storeVars, callVars, pageVars, rated, given, computed, viewVars>>

\* ------------------------------------------------------------ specification
InitPage ==
    /\ sessions = <<>>
    /\ nextId = 1
    /\ clock = 0
    /\ tasks = TaskIds
    /\ cpc = [c \in Callers |-> "idle"]
    /\ last = NoCall
    /\ active = NoActive
    /\ showStartModal = FALSE /\ showEndModal = FALSE /\ isHudVisible = TRUE
    /\ pendingTaskId = 0
    /\ newSession = [ctx |-> 0, work_type |-> "Deep"]
    /\ endWt = "Deep"
    /\ h = [i \in Slots |-> IF i = 1 THEN Refresh ELSE Idle]
    /\ putSent = {}
    /\ startedFrom = {}

\* no other component is mounted
InitLifecycle ==
    /\ InitPage
    /\ ui = <<>> /\ db = <<>> /\ net = <<>>

\* no view has loaded anything yet
NothingLoaded == [kind |-> "none"]

InitMetrics ==
    /\ given = NothingLoaded
    /\ computed = <<>>

Init ==
    /\ InitLifecycle
    /\ rated = NoOutcome
    /\ shown = <<>>
    /\ InitMetrics

\* the dashboard and the server behind it
Next ==
    \/ ClickInitialize
    \/ \E t \in TaskIds : activateTask(t)
    \/ CancelStart
    \/ \E i \in Slots : handleStart(i)
    \/ \E i \in Slots : StartResolved(i)
    \/ \E i \in Slots : DeleteTaskResolved(i)
    \/ HudMinimize
    \/ ShowHud
    \/ HudEnd
    \/ \E wt \in WorkTypes : SelectEndWorkType(wt)
    \/ CancelEnd
    \/ \E i \in Slots : confirmEndSession(i)
    \/ \E i \in Slots : StopResolved(i)
    \/ \E i \in Slots : CheckActiveResolved(i)
    \/ \E id \in SessionIds : logsHandleDelete(id)
    \/ \E i \in Slots : SrvStartCheck(i)
    \/ \E i \in Slots : SrvStartCreate(i)
    \/ \E i \in Slots : SrvEnd(i)
    \/ \E i \in Slots : SrvDeleteTask(i)
    \/ \E i \in Slots : SrvGetActive(i)

Spec == Init /\ [][Next]_vars

\* the lifecycle manager under concurrent callers
NextLM ==
    \/ \E c \in Callers : LM_StartCheck(c)
    \/ \E c \in Callers : LM_StartCreate(c)
    \/ \E id \in SessionIds, f \in EndForms : LM_End(id, f)
    \/ \E id \in SessionIds, wt \in WorkTypes : LM_CorrectWorkType(id, wt)
    \/ \E id \in SessionIds : LM_Delete(id)

SpecLM == Init /\ [][NextLM]_vars

\* ------------------------------------------------- lifecycle manager: claims
\* a step in which a call of the named operation on the named id completed
Completed(op, id) == last'.seq # last.seq /\ last'.op = op /\ last'.id = id

\* a step in which some caller's start() ran its precondition check
StartChecked ==
    \/ \E c \in Callers : cpc[c] = "idle" /\ cpc'[c] = "create"
    \/ last'.seq # last.seq /\ last'.op = "start" /\ cpc' = cpc

\* C1: over every sequence of start, end and delete calls at most one session
\* has no end time, and a start() issued while a session is active fails with
\* ConflictError and creates no record.
C1_SingleActive ==
    [][ /\ Cardinality(OpenSessions(sessions')) <= 1
        /\ (StartChecked /\ OpenSessions(sessions) # {})
             => /\ cpc' = cpc
                /\ last'.res = "ConflictError"
                /\ sessions' = sessions /\ nextId' = nextId ]_vars

\* a start() was refused with ConflictError while a session is open, after an
\* earlier session was ended or deleted
C1_Witness ==
    /\ last.op = "start" /\ last.res = "ConflictError"
    /\ Cardinality(OpenSessions(sessions)) = 1
    /\ nextId = MaxSessions + 1

\* C2: end() on an id that does not exist fails with NotFoundError; end() on
\* a session that was already ended fails with InvalidStateError and leaves
\* its end time, outcome and after-state as they are.
C2_EndOnce ==
    [][ \A id \in SessionIds :
          Completed("end", id) =>
            /\ id \notin DOMAIN sessions
                 => last'.res = "NotFoundError" /\ sessions' = sessions
            /\ (id \in DOMAIN sessions /\ sessions[id].end_time # 0)
                 => /\ last'.res = "InvalidStateError"
                    /\ id \in DOMAIN sessions'
                    /\ sessions'[id].end_time = sessions[id].end_time
                    /\ sessions'[id].outcome = sessions[id].outcome
                    /\ sessions'[id].after = sessions[id].after ]_vars

\* a second end() on a session that is still stored was refused
C2_Witness ==
    /\ last.op = "end" /\ last.res = "InvalidStateError"
    /\ last.id \in DOMAIN sessions
    /\ sessions[last.id].end_time # 0

\* C3: with two or more callers running start() concurrently, whatever the
\* interleaving of their checks and creations, at most one session is open.
C3_OneOpenUnderRace ==
    Cardinality(OpenSessions(sessions)) <= 1

\* the race window: a caller has passed the check and not yet created, while
\* another caller's session is already open
C3_Witness ==
    \E c \in Callers : cpc[c] = "create" /\ OpenSessions(sessions) # {}

\* C5: delete(sessionId) removes the session; if it was the active one there
\* is no active session afterwards, and a start() in that condition is not
\* refused as a conflict and creates the session.
C5_DeleteFrees ==
    [][ /\ \A id \in SessionIds :
             Completed("delete", id) =>
               /\ id \notin DOMAIN sessions'
               /\ id \in OpenSessions(sessions) => OpenSessions(sessions') = {}
        /\ (StartChecked /\ OpenSessions(sessions) = {})
             => (cpc' # cpc \/ last'.res = "ValidationError")
        /\ \A c \in Callers :
             (cpc[c] = "create" /\ cpc'[c] = "idle" /\ OpenSessions(sessions) = {})
               => /\ last'.res = "ok"
                  /\ OpenSessions(sessions') = {last'.id} ]_vars

\* session 1 was deleted while active (nothing was ever ended), and the
\* start() that followed succeeded
C5_Witness ==
    /\ clock = 0
    /\ 1 \notin DOMAIN sessions
    /\ last.op = "start" /\ last.res = "ok" /\ last.id = 2
    /\ OpenSessions(sessions) = {2}

\* C6: correctWorkType succeeds only on a session that has ended, and then
\* changes the work type of that session and nothing else; on an active
\* session or an unknown id it fails and changes nothing.
C6_CorrectOnlyEnded ==
    [][ \A id \in SessionIds :
          Completed("correct", id) =>
            IF id \in DOMAIN sessions /\ sessions[id].end_time # 0
            THEN /\ last'.res = "ok"
                 /\ DOMAIN sessions' = DOMAIN sessions
                 /\ \A j \in DOMAIN sessions \ {id} : sessions'[j] = sessions[j]
                 /\ sessions'[id].work_type = last'.wt
                 /\ sessions'[id].end_time = sessions[id].end_time
                 /\ sessions'[id].outcome = sessions[id].outcome
                 /\ sessions'[id].after = sessions[id].after
            ELSE /\ last'.res \in Errors
                 /\ sessions' = sessions ]_vars

\* an ended session carries a corrected work type
C6_Witness ==
    /\ last.op = "correct" /\ last.res = "ok"
    /\ last.id \in DOMAIN sessions
    /\ sessions[last.id].end_time # 0
    /\ sessions[last.id].work_type = "Shallow"

\* C8: in every state a session has an end time exactly when it has an
\* outcome and an after-state.
C8_EndedIffOutcome ==
    \A id \in DOMAIN sessions :
        /\ sessions[id].end_time # 0 <=> sessions[id].outcome # "none"
        /\ sessions[id].end_time # 0 <=> sessions[id].after # 0

\* an ended session and an open one are stored side by side
C8_Witness ==
    /\ \E id \in DOMAIN sessions : sessions[id].end_time # 0 /\ sessions[id].outcome = "Blocked"
    /\ OpenSessions(sessions) # {}


\* -------------------------------------------------------- dashboard: claims
\* a step in which the server refused the request of handler i
Refused(i) ==
    /\ h[i].pc \in {"check", "create", "srv"}
    /\ h'[i].pc = "resp" /\ h'[i].res \in Errors

\* a step in which handler i resumed after its start or end request was rejected
Rejected(i) ==
    /\ h[i].kind \in {"start", "stop"} /\ h[i].pc = "resp" /\ h[i].res \in Errors
    /\ h'[i] # h[i]

\* C4: a lifecycle operation that fails leaves the stored records as they
\* were; on the client a rejected start or end request leaves
\* sessionStore.active as it was, and the handler deletes no task.
C4_FailureChangesNothing ==
    [][ \A i \in Slots :
          /\ Refused(i) => UNCHANGED <<sessions, nextId, clock, tasks>>
          /\ Rejected(i) => /\ active' = active
                            /\ tasks' = tasks
                            /\ h'[i].kind = "idle"
                            /\ \A j \in Slots : h'[j].pc = "delTask" => h[j].pc = "delTask"
      ]_vars

\* an end request was refused while the store still holds the session as
\* active, and the handler is about to resume
C4_Witness ==
    \E i \in Slots :
        /\ h[i].kind = "stop" /\ h[i].pc = "resp" /\ h[i].res \in Errors
        /\ active.id = h[i].id

\* a step in which handler i resumed after its end request succeeded
EndSucceeded(i) ==
    /\ h[i].kind = "stop" /\ h[i].pc = "resp" /\ h[i].res = "ok"
    /\ h'[i] # h[i]

\* C7: when the operator confirms the end with a work type other than the
\* one the session was started with, a work-type update with the new type is
\* sent for that session after the end request succeeded; none is sent when
\* the type is unchanged, and none before the end request succeeded.
C7_WorkTypeUpdateSent ==
    [][ /\ \A i \in Slots :
             (EndSucceeded(i) /\ h[i].id \in DOMAIN sessions) =>
               IF h[i].wt # sessions[h[i].id].work_type
               THEN [id |-> h[i].id, wt |-> h[i].wt] \in putSent'
               ELSE putSent' = putSent
        /\ putSent' # putSent => \E i \in Slots : EndSucceeded(i)
      ]_vars

\* C22: whenever confirmEndSession is invoked with an active session and the
\* end request succeeds, the handler runs to completion: when it resumes it
\* either sends the work-type update and goes on after it, or closes the end
\* modal, hides the HUD, resets the end form and refreshes the day's data.
C22_EndHandlerCompletes ==
    [][ \A i \in Slots :
          (EndSucceeded(i) \/ (h[i].kind = "stop" /\ h[i].pc = "putResp" /\ h'[i] # h[i])) =>
             \/ h'[i].pc = "put"
             \/ /\ showEndModal' = FALSE
                /\ isHudVisible' = FALSE
                /\ endWt' = "Deep"
                /\ h'[i] = Refresh
      ]_vars

\* C23: whenever no request is in flight, sessionStore.active is non-null
\* exactly when the server has an open session, and then refers to that
\* session.
C23_ActiveMirrorsServer ==
    (\A i \in Slots : h[i].kind = "idle") => active.id = GetActive(sessions).id

\* C9: a task is deleted only after a session was started from it, and
\* handleStart asks for the deletion of no task other than the one its start
\* request was sent from.
C9_TaskDeletedOnlyAfterStart ==
    /\ (TaskIds \ tasks) \subseteq startedFrom
    /\ \A i \in Slots : h[i].pc = "delTask" => h[i].task = h[i].ctx

\* the three views score one session
InitScore ==
    /\ InitLifecycle
    /\ rated \in RatedSessions
    /\ shown = <<>>
    /\ InitMetrics

NextScore ==
    \/ dashboardScore
    \/ logsScore
    \/ horizonScore

SpecScore == InitScore /\ [][NextScore]_vars

\* C10: for ratings in 1..5 every copy of getSessionScore returns
\* (2*progress + 1.5*focus + quality) / 22.5 * 100, a value in [20, 100]:
\* exactly 100 for (5,5,5) and exactly 20 for (1,1,1); for a session without
\* an outcome it returns 0; the dashboard, data-log and static-horizon copies
\* agree.  Scores are in ninths, so score / 9 = halves / 45 * 100.
C10_ScoreFormula ==
    /\ \A v \in DOMAIN shown :
         IF rated.outcome
         THEN LET halves == 4 * rated.progress_rating + 3 * rated.focus_quality
                            + 2 * rated.quality_rating
              IN  /\ shown[v] * 45 = halves * 100 * 9
                  /\ 20 * 9 <= shown[v] /\ shown[v] <= 100 * 9
                  /\ halves = 9 * MaxRating => shown[v] = 100 * 9
                  /\ halves = 9 => shown[v] = 20 * 9
         ELSE shown[v] = 0
    /\ \A v, w \in DOMAIN shown : shown[v] = shown[w]

\* the three views have scored a session rated (1,1,1): 20 points each
C10_Witness ==
    /\ DOMAIN shown = Views
    /\ rated.outcome
    /\ rated.progress_rating = 1 /\ rated.focus_quality = 1 /\ rated.quality_rating = 1
    /\ \A v \in Views : shown[v] = 180

\* ------------------------------------------------------------ day metrics
MaxDaySessions == 2   \* sessions in the day a view has loaded

\* a day's session as the views read it: context.work_type, duration_minutes
\* (0 also stands for a missing value, read as `|| 0`), and the outcome's
\* focus_quality when it has an outcome
DaySessionValues ==
    { x \in [work_type : {"Deep", "Shallow", "Maintenance", "Recovery"},
             duration_minutes : {0, 12, 240},
             outcome : BOOLEAN,
             focus_quality : {0, 2, MaxRating}] :
        x.outcome <=> x.focus_quality # 0 }

DayLists == UNION { [1..n -> DaySessionValues] : n \in 0..MaxDaySessions }

NoSleep == [present |-> FALSE, duration_minutes |-> 0, sleep_quality |-> 0]

SleepValues ==
    {NoSleep} \cup [present : {TRUE}, duration_minutes : {359, 360, 419, 420},
                    sleep_quality : {3, 4}]

IsDeep(x) == x.work_type = "Deep"
HasOutcome(x) == x.outcome
AddDuration(a, x) == a + x.duration_minutes
AddFocus(a, x) == a + x.focus_quality

\* arr.reduce((a, s) => a + s.duration_minutes, 0)
ReduceDuration(arr) ==
    LET acc[i \in 0..Len(arr)] == IF i = 0 THEN 0 ELSE AddDuration(acc[i - 1], arr[i])
    IN  acc[Len(arr)]

\* arr.reduce((a, s) => a + s.focus_quality, 0)
ReduceFocus(arr) ==
    LET acc[i \in 0..Len(arr)] == IF i = 0 THEN 0 ELSE AddFocus(acc[i - 1], arr[i])
    IN  acc[Len(arr)]

\* DataLogs.svelte calculateFallbackScore.  avgFocus * 4 is floored: the
\* quotient 4 * sum / n, when it is no integer, is at least 1/n away from
\* one, so the floor of the double equals the floor of the exact value.
calculateFallbackScore_DependentBonus(sess, sleep) ==
    IF Len(sess) = 0 /\ ~sleep.present THEN 0
    ELSE LET deepMins == ReduceDuration(SelectSeq(sess, IsDeep))
             output == Min(60, deepMins \div 5)
             input == IF ~sleep.present THEN 0
                      ELSE IF sleep.duration_minutes >= 420 THEN 10
                      ELSE IF sleep.duration_minutes >= 360 THEN 5
                      ELSE IF sleep.sleep_quality >= 4 THEN 10
                      ELSE 0
             sessionsWithOutcome == SelectSeq(sess, HasOutcome)
             efficiency == IF Len(sessionsWithOutcome) > 0
                           THEN (ReduceFocus(sessionsWithOutcome) * 4)
                                    \div Len(sessionsWithOutcome)
                           ELSE 0
         IN  Min(100, output + input + efficiency)

calculateFallbackScore_Unclamped(sess, sleep) ==
    IF Len(sess) = 0 /\ ~sleep.present THEN 0
    ELSE LET deepMins == ReduceDuration(SelectSeq(sess, IsDeep))
             output == deepMins \div 5
             input == IF ~sleep.present THEN 0
                      ELSE (IF sleep.duration_minutes >= 420 THEN 10
                            ELSE IF sleep.duration_minutes >= 360 THEN 5 ELSE 0)
                           + (IF sleep.sleep_quality >= 4 THEN 10 ELSE 0)
             sessionsWithOutcome == SelectSeq(sess, HasOutcome)
             efficiency == IF Len(sessionsWithOutcome) > 0
                           THEN (ReduceFocus(sessionsWithOutcome) * 4)
                                    \div Len(sessionsWithOutcome)
                           ELSE 0
         IN  output + input + efficiency

calculateFallbackScore(sess, sleep) ==
    IF Len(sess) = 0 /\ ~sleep.present THEN 0
    ELSE LET deepMins == ReduceDuration(SelectSeq(sess, IsDeep))
             output == Min(60, deepMins \div 5)
             input == IF ~sleep.present THEN 0
                      ELSE (IF sleep.duration_minutes >= 420 THEN 10
                            ELSE IF sleep.duration_minutes >= 360 THEN 5 ELSE 0)
                           + (IF sleep.sleep_quality >= 4 THEN 10 ELSE 0)
             sessionsWithOutcome == SelectSeq(sess, HasOutcome)
             efficiency == IF Len(sessionsWithOutcome) > 0
                           THEN (ReduceFocus(sessionsWithOutcome) * 4)
                                    \div Len(sessionsWithOutcome)
                           ELSE 0
         IN  Min(100, output + input + efficiency)

\* the value a view derived, kept under its name
Derived(name, value) ==
    [n \in DOMAIN computed \cup {name} |-> IF n = name THEN value ELSE computed[n]]

\* DataLogs.svelte loadDayDetails, when /analytics/score gives no score
logsFallbackScore ==
    /\ given.kind = "day" /\ "dailyScore" \notin DOMAIN computed
    /\ computed' = Derived("dailyScore", calculateFallbackScore(given.sessions, given.sleep))
    /\ UNCHANGED <<storeVars, callVars, pageVars, rated, shown, given, viewVars>>

\* DataLogs.svelte: $: deepWorkMinutes, $: totalWorkMinutes
deepWorkMinutes(dailySessions) == ReduceDuration(SelectSeq(dailySessions, IsDeep))

totalWorkMinutes(dailySessions) == ReduceDuration(dailySessions)

\* DataLogs.svelte: $: avgFocusQuality, kept as the quotient num / den; a
\* division by zero would show as den = 0
avgFocusQuality_OverAll(dailySessions) ==
    LET sessionsWithOutcome == SelectSeq(dailySessions, HasOutcome)
    IN  IF Len(dailySessions) > 0
        THEN [num |-> ReduceFocus(sessionsWithOutcome), den |-> Len(dailySessions)]
        ELSE [num |-> 0, den |-> 1]

avgFocusQuality(dailySessions) ==
    LET sessionsWithOutcome == SelectSeq(dailySessions, HasOutcome)
    IN  IF Len(sessionsWithOutcome) > 0
        THEN [num |-> ReduceFocus(sessionsWithOutcome),
              den |-> Len(sessionsWithOutcome)]
        ELSE [num |-> 0, den |-> 1]

\* DataLogs.svelte: the reactive day metrics and the "{dailySessions.length} SESSIONS" label
logsDayMetrics ==
    /\ given.kind = "day" /\ "avgFocusQuality" \notin DOMAIN computed
    /\ computed' =
         [n \in DOMAIN computed \cup {"sessionCount", "deepWorkMinutes", "totalWorkMinutes",
                                      "avgFocusQuality"} |->
            CASE n = "sessionCount" -> Len(given.sessions)
              [] n = "deepWorkMinutes" -> deepWorkMinutes(given.sessions)
              [] n = "totalWorkMinutes" -> totalWorkMinutes(given.sessions)
              [] n = "avgFocusQuality" -> avgFocusQuality(given.sessions)
              [] OTHER -> computed[n]]
    /\ UNCHANGED <<storeVars, callVars, pageVars, rated, shown, given, viewVars>>

Max(a, b) == IF a >= b THEN a ELSE b

\* Math.round of the quotient n / d, d > 0: floor(n / d + 1/2)
Round(n, d) == (2 * n + d) \div (2 * d)

\* App.svelte calculateSystemLoad: the body of the forEach; loadMinutes is
\* kept exactly, in tenths of a minute
AddLoad(loadTenths, x) ==
    IF ~x.outcome THEN loadTenths
    ELSE LET duration == x.duration_minutes
         IN  IF x.work_type = "Deep" THEN loadTenths + duration * 10
             ELSE IF x.work_type = "Shallow" THEN loadTenths + duration * 3
             ELSE IF x.work_type = "Recovery" THEN loadTenths - duration * 5
             ELSE loadTenths


\* sessions.forEach(s => { ... loadMinutes += ... })
ReduceLoad(arr) ==
    LET acc[i \in 0..Len(arr)] == IF i = 0 THEN 0 ELSE AddLoad(acc[i - 1], arr[i])
    IN  acc[Len(arr)]

\* (loadMinutes / 240) * 100 = loadTenths / 24
calculateSystemLoad(sess) ==
    Max(0, Min(100, Round(ReduceLoad(sess), 24)))

\* App.svelte: $: systemLoad = calculateSystemLoad(todaySessions)
dashboardSystemLoad ==
    /\ given.kind = "day" /\ "systemLoad" \notin DOMAIN computed
    /\ computed' = Derived("systemLoad", calculateSystemLoad(given.sessions))
    /\ UNCHANGED <<storeVars, callVars, pageVars, rated, shown, given, viewVars>>

\* a view has loaded a day's sessions and the sleep record attributed to it
InitDay ==
    /\ InitLifecycle
    /\ rated = NoOutcome
    /\ shown = <<>>
    /\ given \in [kind : {"day"}, sessions : DayLists, sleep : SleepValues]
    /\ computed = <<>>

NextDay ==
    \/ logsFallbackScore
    \/ logsDayMetrics
    \/ dashboardSystemLoad

SpecDay == InitDay /\ [][NextDay]_vars

\* ----------------------------------------------------- day metrics: claims
\* the sum of w over the indices in I
RECURSIVE SumOver(_, _)
SumOver(I, w) ==
    IF I = {} THEN 0
    ELSE LET i == CHOOSE j \in I : TRUE IN w[i] + SumOver(I \ {i}, w)

DayIdx == DOMAIN given.sessions
DeepIdx == { i \in DayIdx : given.sessions[i].work_type = "Deep" }
RatedIdx == { i \in DayIdx : given.sessions[i].outcome }
DayMinutes == [i \in DayIdx |-> given.sessions[i].duration_minutes]
DayFocus == [i \in DayIdx |-> given.sessions[i].focus_quality]

\* C11: calculateFallbackScore equals min(100, O + I + E), with
\* O = min(60, floor(Deep minutes / 5)); I = (10 if sleep >= 420 minutes,
\* else 5 if >= 360, else 0) + (10 if sleep quality >= 4, else 0), the two
\* independent, 0 without a sleep record; E = floor(4 * mean focus_quality
\* over the sessions with an outcome), 0 when none has one.
C11_FallbackScore ==
    "dailyScore" \in DOMAIN computed =>
      LET O == Min(60, SumOver(DeepIdx, DayMinutes) \div 5)
          durationBonus == IF given.sleep.duration_minutes >= 420 THEN 10
                           ELSE IF given.sleep.duration_minutes >= 360 THEN 5 ELSE 0
          qualityBonus == IF given.sleep.sleep_quality >= 4 THEN 10 ELSE 0
          I == IF given.sleep.present THEN durationBonus + qualityBonus ELSE 0
          \* floor(4 * sum / n) is the e with e * n <= 4 * sum < (e + 1) * n
          E == IF RatedIdx = {} THEN 0
               ELSE CHOOSE e \in 0..(4 * MaxRating) :
                      /\ e * Cardinality(RatedIdx) <= 4 * SumOver(RatedIdx, DayFocus)
                      /\ 4 * SumOver(RatedIdx, DayFocus) < (e + 1) * Cardinality(RatedIdx)
      IN  computed["dailyScore"] = Min(100, O + I + E)

\* the index of a day with Deep minutes above the cap, a long sleep of good
\* quality and rated sessions whose mean focus is no whole number
C11_Witness ==
    /\ "dailyScore" \in DOMAIN computed
    /\ SumOver(DeepIdx, DayMinutes) > 300
    /\ given.sleep.present /\ given.sleep.duration_minutes >= 420
    /\ given.sleep.sleep_quality >= 4
    /\ Cardinality(RatedIdx) = 2 /\ SumOver(RatedIdx, DayFocus) = 2 + MaxRating
    /\ computed["dailyScore"] = 94

\* C12: the daily index is 0 for a day with no sessions and no sleep record,
\* and lies in 0..100 for every input with ratings within their bounds.
C12_IndexRange ==
    "dailyScore" \in DOMAIN computed =>
      /\ (given.sessions = <<>> /\ ~given.sleep.present) => computed["dailyScore"] = 0
      /\ computed["dailyScore"] \in 0..100

\* the index of the empty day was computed, and is 0
C12_Witness ==
    /\ "dailyScore" \in DOMAIN computed
    /\ given.sessions = <<>> /\ ~given.sleep.present
    /\ computed["dailyScore"] = 0

\* C15: for every list of a day's sessions the load gauge equals
\* clamp(round(L / 240 * 100), 0, 100), L = sum of duration for Deep
\* + 0.3 * duration for Shallow - 0.5 * duration for Recovery, other work
\* types adding nothing; 240 minutes of pure Deep work give 100; the sum is
\* not floored on the way, so the order of the sessions does not matter.
\* L is summed over the indices of the list, in tenths of a minute.
C15_LoadGauge ==
    "systemLoad" \in DOMAIN computed =>
      LET weight == [i \in DayIdx |->
                       CASE given.sessions[i].work_type = "Deep" -> 10
                         [] given.sessions[i].work_type = "Shallow" -> 3
                         [] given.sessions[i].work_type = "Recovery" -> -5
                         [] OTHER -> 0]
          L == SumOver(DayIdx, [i \in DayIdx |-> weight[i] * DayMinutes[i]])
          pureDeep == \A i \in DayIdx : given.sessions[i].work_type = "Deep"
      IN  /\ computed["systemLoad"] = Max(0, Min(100, Round(L, 24)))
          /\ (pureDeep /\ SumOver(DayIdx, DayMinutes) = 240) => computed["systemLoad"] = 100

\* C20: a rating average divides the sum of the rating by the number of
\* sessions that have an outcome; sessions without one are left out of the
\* denominator; the average is 0, never NaN, when no session is rated; the
\* session count and the minute totals include every session.
C20_AveragesOverRated ==
    "avgFocusQuality" \in DOMAIN computed =>
      LET avg == computed["avgFocusQuality"]
      IN  /\ avg.den > 0
          /\ RatedIdx # {} =>
               avg.num * Cardinality(RatedIdx) = SumOver(RatedIdx, DayFocus) * avg.den
          /\ RatedIdx = {} => avg.num = 0
          /\ computed["sessionCount"] = Cardinality(DayIdx)
          /\ computed["totalWorkMinutes"] = SumOver(DayIdx, DayMinutes)
          /\ computed["deepWorkMinutes"] = SumOver(DeepIdx, DayMinutes)

\* a day with a rated session and an unrated one that has minutes: the
\* average is the rated session's focus, the totals count both
C20_Witness ==
    /\ "avgFocusQuality" \in DOMAIN computed
    /\ Cardinality(DayIdx) = 2 /\ Cardinality(RatedIdx) = 1
    /\ \E i \in DayIdx \ RatedIdx : DayMinutes[i] = 240
    /\ computed["avgFocusQuality"] = [num |-> 2, den |-> 1]
    /\ computed["sessionCount"] = 2
    /\ computed["totalWorkMinutes"] > 240

\* ------------------------------------------------------------------ intake
MaxRangeDays == 2     \* days in the range the analytics view has loaded

NoIntake == [present |-> FALSE, water_count |-> 0, breakfast_time |-> FALSE,
             lunch_time |-> FALSE, dinner_time |-> FALSE]

\* an intake record: the water counter and whether each meal has a time
IntakeValues ==
    {NoIntake} \cup [present : {TRUE}, water_count : {0, 5, 10, 13},
                     breakfast_time : BOOLEAN, lunch_time : BOOLEAN,
                     dinner_time : BOOLEAN]

\* the score /analytics/score answers with
BaseScores == {0, 50, 90, 100}

\* the filter(Boolean) callback
Truthy(b) == b

\* App.svelte
calculateIntakePoints(intake) ==
    IF ~intake.present THEN 0
    ELSE LET water == Min(5, intake.water_count \div 2)
             mealsLogged == Len(SelectSeq(<<intake.breakfast_time, intake.lunch_time,
                                            intake.dinner_time>>, Truthy))
         IN  Min(20, water + mealsLogged * 5)

\* DataLogs.svelte
logsCalculateIntakePoints(intake) ==
    IF ~intake.present THEN 0
    ELSE LET water == Min(5, intake.water_count \div 2)
             mealsLogged == Len(SelectSeq(<<intake.breakfast_time, intake.lunch_time,
                                            intake.dinner_time>>, Truthy))
         IN  Min(20, water + mealsLogged * 5)

\* Analytics.svelte
analyticsCalculateIntakePoints_WaterPerGlass(intake) ==
    IF ~intake.present THEN 0
    ELSE LET water == Min(5, intake.water_count)
             mealsLogged == Len(SelectSeq(<<intake.breakfast_time, intake.lunch_time,
                                            intake.dinner_time>>, Truthy))
         IN  Min(20, water + mealsLogged * 5)

analyticsCalculateIntakePoints(intake) ==
    IF ~intake.present THEN 0
    ELSE LET water == Min(5, intake.water_count \div 2)
             mealsLogged == Len(SelectSeq(<<intake.breakfast_time, intake.lunch_time,
                                            intake.dinner_time>>, Truthy))
         IN  Min(20, water + mealsLogged * 5)

\* the range ends today: today's record is the last of the range
TodayIntake == given.range[Len(given.range)]

\* several derived values, kept under their names
DerivedAll(values) ==
    [n \in DOMAIN computed \cup DOMAIN values |->
        IF n \in DOMAIN values THEN values[n] ELSE computed[n]]

\* App.svelte: $: intakePoints, $: extendedLiveScore; the view shows
\* {extendedLiveScore} and "+{intakePoints} intake"
dashboardExtendedScore ==
    /\ given.kind = "intake" /\ "extendedLiveScore" \notin DOMAIN computed
    /\ LET liveScore == given.base
           intakePoints == calculateIntakePoints(TodayIntake)
       IN  computed' = DerivedAll([liveScore |-> liveScore,
                                   intakePoints |-> intakePoints,
                                   extendedLiveScore |-> Min(100, liveScore + intakePoints)])
    /\ UNCHANGED <<storeVars, callVars, pageVars, rated, shown, given, viewVars>>

\* DataLogs.svelte: $: intakePoints, $: extendedDailyScore
logsExtendedScore ==
    /\ given.kind = "intake" /\ "logsExtendedDailyScore" \notin DOMAIN computed
    /\ LET dailyScore == given.base
           intakePoints == logsCalculateIntakePoints(TodayIntake)
       IN  computed' = DerivedAll([logsDailyScore |-> dailyScore,
                                   logsIntakePoints |-> intakePoints,
                                   logsExtendedDailyScore |-> Min(100, dailyScore + intakePoints)])
    /\ UNCHANGED <<storeVars, callVars, pageVars, rated, shown, given, viewVars>>

AddIntakePoints(sum, intake) ==
    sum + (IF intake.present THEN analyticsCalculateIntakePoints(intake) ELSE 0)


\* the for loop over dailyIntakes: totalIntakePoints += ...
ReduceIntakePoints(arr) ==
    LET acc[i \in 0..Len(arr)] == IF i = 0 THEN 0 ELSE AddIntakePoints(acc[i - 1], arr[i])
    IN  acc[Len(arr)]

\* Analytics.svelte loadIntakeData, and what the view shows afterwards:
\* {extendedDailyScore}, "Base: {dailyScore}" and, when the extended score is
\* the larger, "+{Math.round(extendedDailyScore - dailyScore)} from intake".
\* avgIntakePoints is local to loadIntakeData.
analyticsLoadIntakeData ==
    /\ given.kind = "intake" /\ "analyticsExtendedDailyScore" \notin DOMAIN computed
    /\ LET dailyScore == given.base
           dailyIntakes == given.range
           totalIntakePoints == ReduceIntakePoints(dailyIntakes)
           extendedDailyScore ==
               IF Len(dailyIntakes) > 0
               THEN Min(100, Round(dailyScore * Len(dailyIntakes) + totalIntakePoints,
                                   Len(dailyIntakes)))
               ELSE Min(100, dailyScore)
       IN  computed' = DerivedAll(
             [analyticsDailyScore |-> dailyScore,
              analyticsPoints |-> [i \in DOMAIN dailyIntakes |->
                                     AddIntakePoints(0, dailyIntakes[i])],
              analyticsFromIntake |-> IF extendedDailyScore > dailyScore
                                      THEN extendedDailyScore - dailyScore ELSE 0,
              analyticsExtendedDailyScore |-> extendedDailyScore])
    /\ UNCHANGED <<storeVars, callVars, pageVars, rated, shown, given, viewVars>>

\* the views have loaded the base score and the intake records of a range
InitIntake ==
    /\ InitLifecycle
    /\ rated = NoOutcome
    /\ shown = <<>>
    /\ given \in [kind : {"intake"}, base : BaseScores,
                  range : UNION { [1..n -> IntakeValues] : n \in 1..MaxRangeDays }]
    /\ computed = <<>>

NextIntake ==
    \/ dashboardExtendedScore
    \/ logsExtendedScore
    \/ analyticsLoadIntakeData

SpecIntake == InitIntake /\ [][NextIntake]_vars

\* ---------------------------------------------------------- intake: claims
\* the intake bonus as the specification gives it
IntakeBonus(intake) ==
    IF ~intake.present THEN 0
    ELSE LET halfGlasses == CHOOSE k \in 0..intake.water_count :
                              2 * k <= intake.water_count /\ intake.water_count < 2 * k + 2
             meals == { m \in {"breakfast_time", "lunch_time", "dinner_time"} : intake[m] }
         IN  Min(20, Min(5, halfGlasses) + 5 * Cardinality(meals))

\* C13: for every intake record with water_count >= 0, calculateIntakePoints
\* equals min(20, min(5, floor(water_count / 2)) + 5 * logged meals), within
\* 0..20; water_count = 10 with all three meals gives 20; a missing record
\* gives 0; the dashboard, data-log and analytics copies agree.
C13_IntakePoints ==
    /\ "intakePoints" \in DOMAIN computed =>
         /\ computed["intakePoints"] = IntakeBonus(TodayIntake)
         /\ computed["intakePoints"] \in 0..20
    /\ "logsIntakePoints" \in DOMAIN computed =>
         /\ computed["logsIntakePoints"] = IntakeBonus(TodayIntake)
         /\ computed["logsIntakePoints"] \in 0..20
    /\ "analyticsPoints" \in DOMAIN computed =>
         \A i \in DOMAIN given.range :
            /\ computed["analyticsPoints"][i] = IntakeBonus(given.range[i])
            /\ computed["analyticsPoints"][i] \in 0..20
            /\ ~given.range[i].present => computed["analyticsPoints"][i] = 0
            /\ (/\ given.range[i].water_count = 10 /\ given.range[i].breakfast_time
                /\ given.range[i].lunch_time /\ given.range[i].dinner_time)
                 => computed["analyticsPoints"][i] = 20
    /\ {"intakePoints", "logsIntakePoints", "analyticsPoints"} \subseteq DOMAIN computed =>
         /\ computed["intakePoints"] = computed["logsIntakePoints"]
         /\ computed["intakePoints"] = computed["analyticsPoints"][Len(given.range)]

\* the three views have computed 20 points for ten glasses and three meals,
\* and 0 for the day before, which has no record
C13_Witness ==
    /\ {"intakePoints", "logsIntakePoints", "analyticsPoints"} \subseteq DOMAIN computed
    /\ Len(given.range) = 2 /\ ~given.range[1].present
    /\ TodayIntake.water_count = 10 /\ TodayIntake.breakfast_time
    /\ TodayIntake.lunch_time /\ TodayIntake.dinner_time
    /\ computed["intakePoints"] = 20
    /\ computed["analyticsPoints"] = <<0, 20>>

\* the mean intake bonus over the range, to the nearest point
MeanBonus ==
    Round(SumOver(DOMAIN given.range, [i \in DOMAIN given.range |-> IntakeBonus(given.range[i])]),
          Len(given.range))

\* C14: in the dashboard, data-log and analytics views the extended score
\* never exceeds 100 whatever the base score, and computing it leaves the
\* base score and the intake bonus as they are: each view still holds both.
C14_ExtendedScore ==
    /\ "extendedLiveScore" \in DOMAIN computed =>
         /\ computed["extendedLiveScore"] <= 100
         /\ computed["liveScore"] = given.base
         /\ computed["intakePoints"] = IntakeBonus(TodayIntake)
    /\ "logsExtendedDailyScore" \in DOMAIN computed =>
         /\ computed["logsExtendedDailyScore"] <= 100
         /\ computed["logsDailyScore"] = given.base
         /\ computed["logsIntakePoints"] = IntakeBonus(TodayIntake)
    /\ "analyticsExtendedDailyScore" \in DOMAIN computed =>
         /\ computed["analyticsExtendedDailyScore"] <= 100
         /\ computed["analyticsDailyScore"] = given.base
         /\ computed["analyticsFromIntake"] = MeanBonus

\* -------------------------------------------------------- calendar heatmap
CalendarDays == 14    \* consecutive values of today that are tried

GridWeeks == 53
WeekDays  == 7
YearDays  == 364

\* Calendar dates are day numbers; day 0 is a Sunday, so getDay() is the
\* remainder modulo 7.  A Date is an instant: the local calendar date it
\* falls on and the milliseconds since the first `new Date()` of the block.
\* utcShift is the UTC calendar date minus the local one at the local time
\* of day of the instant (toISOString prints the UTC date): 0 in UTC, -1 in
\* the early hours east of Greenwich, 1 in the late hours west of it.
Todays == { 371 + k : k \in 0..(CalendarDays - 1) }

CalendarInputs ==
    [kind : {"calendar"}, today : Todays, utcShift : {-1, 0, 1},
     tick : {0, 1}]               \* ms between the two `new Date()` calls

getDay(date) == date.day % WeekDays

\* date.setDate(date.getDate() + n): the time of day is kept
AddDays(date, n) == [date EXCEPT !.day = @ + n]

\* date.toISOString().split('T')[0]
IsoDate(date, utcShift) == date.day + utcShift

\* a > b on Dates
Later(a, b) == a.day > b.day \/ (a.day = b.day /\ a.ms > b.ms)

\* while (startDate.getDay() !== 0) startDate.setDate(startDate.getDate() - 1)
RECURSIVE AlignToSunday(_)
AlignToSunday(date) ==
    IF getDay(date) = 0 THEN date ELSE AlignToSunday(AddDays(date, -1))

\* CalendarHeatmap.svelte: the reactive block that builds grid
\* (iterDate after w weeks and d days is startDate + 7 * w + d days)
BuildGrid(now) ==
    LET endDate == [day |-> now.today, ms |-> 0]
        startDate == AlignToSunday(AddDays([day |-> now.today, ms |-> now.tick], -YearDays))
    IN  [w \in 1..GridWeeks |->
           [d \in 1..WeekDays |->
              LET iterDate == AddDays(startDate, (w - 1) * WeekDays + (d - 1))
              IN  [date |-> IsoDate(iterDate, now.utcShift),
                   inFuture |-> Later(iterDate, endDate)]]]

\* the component is rendered: $: { ... grid = rows }
heatmapBuildGrid ==
    /\ given.kind = "calendar" /\ "grid" \notin DOMAIN computed
    /\ computed' = Derived("grid", BuildGrid(given))
    /\ UNCHANGED <<storeVars, callVars, pageVars, rated, shown, given, viewVars>>

\* getColor(cell): whether the cell is drawn as not yet occurred
NotYetOccurred(cell) == cell.inFuture

\* the template: each cell is drawn with getColor(day)
heatmapRender ==
    /\ given.kind = "calendar" /\ "grid" \in DOMAIN computed
    /\ "drawnFuture" \notin DOMAIN computed
    /\ computed' = Derived("drawnFuture",
                           { computed["grid"][w][d].date :
                               <<w, d>> \in { c \in (1..GridWeeks) \X (1..WeekDays) :
                                               NotYetOccurred(computed["grid"][c[1]][c[2]]) } })
    /\ UNCHANGED <<storeVars, callVars, pageVars, rated, shown, given, viewVars>>

InitCalendar ==
    /\ InitLifecycle
    /\ rated = NoOutcome
    /\ shown = <<>>
    /\ given \in CalendarInputs
    /\ computed = <<>>

NextCalendar ==
    \/ heatmapBuildGrid
    \/ heatmapRender

SpecCalendar == InitCalendar /\ [][NextCalendar]_vars

\* ----------------------------------------------- calendar heatmap: claims
\* the most recent Sunday on or before a date
SundayOnOrBefore(day) == CHOOSE s \in (day - 6)..day : s % 7 = 0

\* C16: for every value of today the grid has exactly 53 columns of 7 cells
\* holding 371 consecutive dates in column-major order, and its first cell
\* is the most recent Sunday on or before the date 364 days before today.
C16_GridShape ==
    "grid" \in DOMAIN computed =>
      LET grid == computed["grid"]
      IN  /\ Len(grid) = 53
          /\ \A w \in 1..53 : Len(grid[w]) = 7
          /\ \A w \in 1..53, d \in 1..7 :
               grid[w][d].date = grid[1][1].date + 7 * (w - 1) + (d - 1)
          /\ grid[1][1].date = SundayOnOrBefore(given.today - 364)

\* C17: for every value of today no date more than 364 days before today
\* appears in the grid, and a cell is flagged inFuture exactly when its date
\* is strictly after today.
C17_GridWindow ==
    "grid" \in DOMAIN computed =>
      \A w \in 1..53, d \in 1..7 :
         LET cell == computed["grid"][w][d]
         IN  /\ cell.date >= given.today - 364
             /\ cell.inFuture <=> cell.date > given.today

\* ------------------------------------------------------------ sleep log
\* SleepLog.svelte: the values of the two datetime-local inputs, "" when an
\* input is cleared and otherwise a local time to the minute (here the
\* minute number); the defaults are 23:00 to 07:00
NoTime == [empty |-> TRUE]

TimeValues ==
    {NoTime} \cup [empty : {FALSE}, minute : {0, 1, 479, 480, 481}]

\* new Date(str): the instant in milliseconds
ParseDate(str) == str.minute * 60000

\* SleepLog.svelte calculateDuration(s, e) without the Math.max(0, ...)
calculateDuration_Signed(s, e) ==
    IF s.empty \/ e.empty THEN 0
    ELSE ((ParseDate(e) - ParseDate(s)) \div 1000) \div 60

\* SleepLog.svelte calculateDuration(s, e)
calculateDuration(s, e) ==
    IF s.empty \/ e.empty THEN 0
    ELSE LET diff == ParseDate(e) - ParseDate(s)
         IN  Max(0, (diff \div 1000) \div 60)

\* SleepLog.svelte: $: duration = calculateDuration(startStr, endStr)
sleepLogDuration ==
    /\ given.kind = "sleep" /\ "duration" \notin DOMAIN computed
    /\ computed' = Derived("duration", calculateDuration(given.startStr, given.endStr))
    /\ UNCHANGED <<storeVars, callVars, pageVars, rated, shown, given, viewVars>>

\* ------------------------------------------- sleep-vs-deep-work series
\* a row's sleep_minutes as the server sends it: null or a number
Null == [isNull |-> TRUE]

Minutes(n) == [isNull |-> FALSE, value |-> n]

SeriesRowValues ==
    [sleep_minutes : {Null, Minutes(0), Minutes(450)}, deep_minutes : {0, 90}]

\* GET /sleep-vs-deepwork: one row per date, by date ascending
SeriesValues ==
    UNION { { [i \in 1..n |-> [date |-> i,
                                sleep_minutes |-> f[i].sleep_minutes,
                                deep_minutes |-> f[i].deep_minutes]] :
               f \in [1..n -> SeriesRowValues] } : n \in 1..MaxRangeDays }

\* String(n).padStart(4, " ")
PadStart(n) ==
    (IF n < 10 THEN "   " ELSE IF n < 100 THEN "  " ELSE IF n < 1000 THEN " " ELSE "")
        \o ToString(n)

\* v || 0
OrZero(v) == IF v.isNull THEN 0 ELSE v.value

\* a value used as a condition: null and 0 are both falsy
TruthyMinutes(v) == ~v.isNull /\ v.value # 0

\* script.js renderSleepVsDeepwork(data): the chart's sleep dataset and the
\* text table, per row
renderSleepVsDeepwork(data) ==
    [i \in 1..Len(data) |->
        [point |-> data[i].sleep_minutes,
         text  |-> IF data[i].sleep_minutes.isNull THEN "  -"
                   ELSE PadStart(data[i].sleep_minutes.value)]]

legacyRenderSleepVsDeepwork ==
    /\ given.kind = "sleep" /\ "legacySeries" \notin DOMAIN computed
    /\ computed' = Derived("legacySeries", renderSleepVsDeepwork(given.series))
    /\ UNCHANGED <<storeVars, callVars, pageVars, rated, shown, given, viewVars>>

\* Analytics.svelte scaleY(mins, maxMins), as the fraction <<num, den>>
scaleY(mins, maxMins) ==
    IF ~TruthyMinutes(mins) THEN <<0, 1>> ELSE <<mins.value * 100, maxMins>>


MaxSleep(acc, d) == Max(acc, OrZero(d.sleep_minutes))

\* Math.max(...sleepVsWork.map(d => d.sleep_minutes || 0))
ReduceMaxSleep(arr) ==
    LET acc[i \in 0..Len(arr)] == IF i = 0 THEN 0 ELSE MaxSleep(acc[i - 1], arr[i])
    IN  acc[Len(arr)]

\* Analytics.svelte, Input vs Output chart: per row the sleep dot and the
\* tooltip's sleep line
InputVsOutput(data) ==
    LET maxSleep == Max(600, ReduceMaxSleep(data))
    IN  [i \in 1..Len(data) |->
            [dot     |-> TruthyMinutes(data[i].sleep_minutes),
             bottom  |-> scaleY(data[i].sleep_minutes, maxSleep),
             tooltip |-> "Sleep: " \o ToString(OrZero(data[i].sleep_minutes)) \o "m"]]

analyticsRenderSleepVsWork ==
    /\ given.kind = "sleep" /\ "analyticsSeries" \notin DOMAIN computed
    /\ computed' = Derived("analyticsSeries", InputVsOutput(given.series))
    /\ UNCHANGED <<storeVars, callVars, pageVars, rated, shown, given, viewVars>>

InitSleep ==
    /\ InitLifecycle
    /\ rated = NoOutcome
    /\ shown = <<>>
    /\ given \in [kind : {"sleep"}, startStr : TimeValues, endStr : TimeValues,
                  series : SeriesValues]
    /\ computed = <<>>

NextSleep ==
    \/ sleepLogDuration
    \/ legacyRenderSleepVsDeepwork
    \/ analyticsRenderSleepVsWork

SpecSleep == InitSleep /\ [][NextSleep]_vars

\* ------------------------------------------------------- sleep: claims
\* C18: for every pair of sleep start and end timestamps the derived
\* duration is the whole number of minutes from start to end when the end
\* is after the start and 0 otherwise, also when either timestamp is
\* missing; it is never negative.
C18_SleepDuration ==
    "duration" \in DOMAIN computed =>
      LET s == given.startStr
          e == given.endStr
      IN  /\ computed["duration"] >= 0
          /\ computed["duration"] =
               IF ~s.empty /\ ~e.empty /\ e.minute > s.minute
               THEN e.minute - s.minute ELSE 0

\* an end before the start has given the duration 0
C18_Witness ==
    /\ "duration" \in DOMAIN computed
    /\ ~given.startStr.empty /\ ~given.endStr.empty
    /\ given.endStr.minute < given.startStr.minute
    /\ computed["duration"] = 0

\* C19: in the sleep-vs-deep-work series and in every display of it a date
\* with no sleep record is represented differently from a date with a
\* recorded sleep of 0 minutes: what is shown for an absent sleep_minutes
\* differs from what is shown for sleep_minutes = 0.
C19_AbsentIsNotZero ==
    \A view \in {"legacySeries", "analyticsSeries"} \cap DOMAIN computed :
      \A i, j \in 1..Len(given.series) :
         (given.series[i].sleep_minutes = Null /\ given.series[j].sleep_minutes = Minutes(0))
            => computed[view][i] # computed[view][j]

\* ------------------------------------------- continuity of the bio state
\* App.svelte: the defaults of newSession.energy_before / stress_before
DefaultBefore == [energy |-> 7, stress |-> 3]

\* what the operator may enter as energy_after / stress_after in the end modal
AfterValues == {[energy |-> 7, stress |-> 3], [energy |-> 4, stress |-> 6]}

\* a session as GET /sessions returns it: id, before, and after / outcome
\* once it was ended
NoAfter == [energy |-> 0, stress |-> 0]

OpenSession(id, before) == [id |-> id, before |-> before, outcome |-> FALSE, after |-> NoAfter]

\* todaySessions = sessions.sort((a, b) => b.start_time - a.start_time):
\* the server's list, latest start first (ids are handed out in start order)
SortByStartDesc(ss) == [k \in 1..Len(ss) |-> ss[Len(ss) + 1 - k]]

\* $: lastCompleted = todaySessions.find(s => s.outcome && s.after)
lastCompleted(todaySessions) ==
    LET hits == { k \in 1..Len(todaySessions) :
                    todaySessions[k].outcome /\ todaySessions[k].after # NoAfter }
    IN  IF hits = {} THEN NoAfter
        ELSE todaySessions[CHOOSE k \in hits : \A j \in hits : k <= j].after

\* prefillBioState(): the new energy_before / stress_before
prefillBioState(todaySessions, before) ==
    IF lastCompleted(todaySessions) # NoAfter THEN lastCompleted(todaySessions) ELSE before

\* the session the server holds open, 0 when none
DbOpen == IF Len(db) > 0 /\ ~db[Len(db)].outcome THEN db[Len(db)].id ELSE 0

\* "+ Initialize": pendingTaskId = null; prefillBioState(); showStartModal = true
bioInitialize ==
    /\ ui.active = 0 /\ ~ui.showStartModal /\ ~ui.showEndModal
    /\ ui' = [ui EXCEPT !.before = prefillBioState(ui.todaySessions, ui.before),
                        !.showStartModal = TRUE]
    /\ UNCHANGED <<storeVars, callVars, pageVars, metricVars, db, net>>

\* handleStart: sessionStore.start(newSession) creates the session with the
\* form's before values; the modal closes and refreshData() is called
bioHandleStart ==
    /\ ui.showStartModal /\ DbOpen = 0 /\ Len(db) < MaxSessions
    /\ db' = Append(db, OpenSession(Len(db) + 1, ui.before))
    /\ ui' = [ui EXCEPT !.active = Len(db) + 1, !.showStartModal = FALSE]
    /\ net' = net \cup {"refreshData"}
    /\ UNCHANGED <<storeVars, callVars, pageVars, metricVars>>

\* ActiveHUD on:end, with the operator's entries in the end modal
bioHudEnd ==
    /\ ui.active # 0 /\ ~ui.showEndModal
    /\ \E a \in AfterValues : ui' = [ui EXCEPT !.showEndModal = TRUE, !.after = a]
    /\ UNCHANGED <<storeVars, callVars, pageVars, metricVars, db, net>>

\* confirmEndSession: sessionStore.stop() ends the session and sets active to
\* null; the handler then reads $sessionStore.active.context of null and
\* throws, so the modal stays open and refreshData() is not reached
bioConfirmEndSession ==
    /\ ui.showEndModal /\ ui.active # 0 /\ ui.active = DbOpen
    /\ db' = [db EXCEPT ![Len(db)].outcome = TRUE, ![Len(db)].after = ui.after]
    /\ ui' = [ui EXCEPT !.active = 0]
    /\ UNCHANGED <<storeVars, callVars, pageVars, metricVars, net>>

\* the close button of the end modal
bioCancelEnd ==
    /\ ui.showEndModal
    /\ ui' = [ui EXCEPT !.showEndModal = FALSE]
    /\ UNCHANGED <<storeVars, callVars, pageVars, metricVars, db, net>>

\* refreshData: checkActive, then todaySessions from GET /sessions
bioRefreshData ==
    /\ "refreshData" \in net
    /\ net' = net \ {"refreshData"}
    /\ ui' = [ui EXCEPT !.active = DbOpen, !.todaySessions = SortByStartDesc(db)]
    /\ UNCHANGED <<storeVars, callVars, pageVars, metricVars, db>>

\* the page is loaded again: the component starts from its defaults and
\* onMount calls refreshData()
MountedPage ==
    [active |-> 0, todaySessions |-> <<>>, before |-> DefaultBefore,
     after |-> DefaultBefore, showStartModal |-> FALSE, showEndModal |-> FALSE]

bioReload ==
    /\ ui # MountedPage
    /\ ui' = MountedPage
    /\ net' = {"refreshData"}
    /\ UNCHANGED <<storeVars, callVars, pageVars, metricVars, db>>

InitCarry ==
    /\ InitPage
    /\ rated = NoOutcome /\ shown = <<>>
    /\ InitMetrics
    /\ ui = MountedPage
    /\ db = <<>>
    /\ net = {"refreshData"}

NextCarry ==
    \/ bioInitialize
    \/ bioHandleStart
    \/ bioHudEnd
    \/ bioConfirmEndSession
    \/ bioCancelEnd
    \/ bioRefreshData
    \/ bioReload

SpecCarry == InitCarry /\ [][NextCarry]_vars

\* ------------------------------------------------- continuity: claims
\* C21: when a new session is started immediately after another one was
\* ended, the before-energy and before-stress preset for the new session are
\* the after-energy and after-stress of the session that was just ended.
C21_BioStateCarried ==
    \A k \in 2..Len(db) : db[k].before = db[k - 1].after

\* ------------------------------------------------- data log: day details
MaxLoads == 3         \* loadDayDetails calls, the one of onMount included

\* the dates the operator selects in the month calendar
LogDates == {1, 2}

\* the score field of the answer of /analytics/score: absent, or a number
Number(n) == [isNull |-> FALSE, value |-> n]

\* what the server holds for one date: its sessions, sleep, intake and score
LogDays ==
    { [sessions |-> <<>>, sleep |-> NoSleep, intake |-> NoIntake, score |-> Number(0)],
      [sessions |-> <<[work_type |-> "Deep", duration_minutes |-> 240, outcome |-> TRUE,
                       focus_quality |-> MaxRating]>>,
       sleep |-> [present |-> TRUE, duration_minutes |-> 420, sleep_quality |-> 4],
       intake |-> [present |-> TRUE, water_count |-> 5, breakfast_time |-> TRUE,
                   lunch_time |-> FALSE, dinner_time |-> FALSE],
       score |-> Number(90)],
      [sessions |-> <<[work_type |-> "Deep", duration_minutes |-> 12, outcome |-> TRUE,
                       focus_quality |-> 2]>>,
       sleep |-> NoSleep, intake |-> NoIntake, score |-> Number(0)],
      [sessions |-> <<[work_type |-> "Shallow", duration_minutes |-> 12, outcome |-> FALSE,
                       focus_quality |-> 0]>>,
       sleep |-> [present |-> TRUE, duration_minutes |-> 360, sleep_quality |-> 3],
       intake |-> NoIntake, score |-> Null] }

\* scoreData.score || calculateFallbackScore(sess, slp)
ScoreOrFallback(score, sess, slp) ==
    IF TruthyMinutes(score) THEN score.value ELSE calculateFallbackScore(sess, slp)

\* the loadDayDetails calls made so far
LoadsIssued == ui.issued

\* a call of loadDayDetails that awaits its answers
LoadCalls == [call : 1..MaxLoads, date : LogDates]

\* loadDayDetails(date) up to its await: from onMount, from the month
\* calendar's select event or from the Today button
loadDayDetails(date) ==
    /\ LoadsIssued < MaxLoads
    /\ ui' = [ui EXCEPT !.selectedDate = date, !.loadingDetails = TRUE,
                        !.issued = @ + 1]
    /\ net' = net \cup {[call |-> LoadsIssued + 1, date |-> date]}
    /\ UNCHANGED <<storeVars, callVars, pageVars, metricVars, db>>

\* loadDayDetails after the await, all five answers having arrived
LoadResolved(r) ==
    /\ r \in net
    /\ net' = net \ {r}
    /\ LET day == db[r.date]
       IN  ui' = [ui EXCEPT !.dailySessions = day.sessions,
                            !.dailySleep = day.sleep,
                            !.dailyIntake = day.intake,
                            !.dailyScore = ScoreOrFallback(day.score, day.sessions, day.sleep),
                            !.loadingDetails = FALSE,
                            !.settled = [date |-> r.date, ok |-> TRUE]]
    /\ UNCHANGED <<storeVars, callVars, pageVars, metricVars, db>>

\* loadDayDetails after the await, a request having failed: the catch branch
LoadFailed(r) ==
    /\ r \in net
    /\ net' = net \ {r}
    /\ ui' = [ui EXCEPT !.dailyScore = calculateFallbackScore(ui.dailySessions, ui.dailySleep),
                        !.loadingDetails = FALSE,
                        !.settled = [date |-> r.date, ok |-> FALSE]]
    /\ UNCHANGED <<storeVars, callVars, pageVars, metricVars, db>>

\* DataLogs.svelte as constructed, selectedDate being today (date 1);
\* settled is history: the loadDayDetails call that settled last
LogsMounted ==
    [selectedDate |-> 1, dailySessions |-> <<>>, dailySleep |-> NoSleep,
     dailyIntake |-> NoIntake, dailyScore |-> 0, loadingDetails |-> FALSE,
     issued |-> 0, settled |-> [date |-> 0, ok |-> FALSE]]

InitLogs ==
    /\ InitPage
    /\ rated = NoOutcome /\ shown = <<>>
    /\ InitMetrics
    /\ ui = LogsMounted
    /\ db \in [LogDates -> LogDays]
    /\ net = {}

NextLogs ==
    \/ \E date \in LogDates : loadDayDetails(date)
    \/ \E r \in LoadCalls : LoadResolved(r)
    \/ \E r \in LoadCalls : LoadFailed(r)

SpecLogs == InitLogs /\ [][NextLogs]_vars

\* --------------------------------------------------- data log: claims
\* C24: in the data-log view, once all in-flight loadDayDetails calls have
\* settled, the displayed sessions, sleep, intake and daily score are those
\* of selectedDate, for every order in which overlapping loads resolve and
\* also when a load fails.
C24_DetailsOfSelectedDate ==
    (net = {} /\ ui.issued > 0) =>
       LET day == db[ui.selectedDate]
       IN  /\ ui.dailySessions = day.sessions
           /\ ui.dailySleep = day.sleep
           /\ ui.dailyIntake = day.intake
           /\ ui.dailyScore = ScoreOrFallback(day.score, day.sessions, day.sleep)

\* C26: the locally computed fallback index is used only when no score is
\* available from the server; whenever the server returns a score for the
\* selected date, a score of 0 included, that score is the one displayed.
C26_ServerScoreDisplayed ==
    (ui.settled.ok /\ ~db[ui.settled.date].score.isNull) =>
       ui.dailyScore = db[ui.settled.date].score.value

\* ------------------------------------------------ analytics: loadData
MaxRangeLoads == 3    \* loadData calls, the one at construction included

Ranges == {"day", "week", "month"}

\* a call of loadData: awaiting the five answers ("fetch") or, after them,
\* loadIntakeData ("intake")
DataCalls == [call : 1..MaxRangeLoads, range : Ranges, pc : {"fetch", "intake"}]

\* loadData() up to its first await
loadData(view, range) ==
    [view EXCEPT !.range = range, !.loading = TRUE, !.issued = @ + 1]

\* a range button: range = r, then $: if (range) loadData()
analyticsSelectRange(r) ==
    /\ r # ui.range /\ ui.issued < MaxRangeLoads
    /\ ui' = loadData(ui, r)
    /\ net' = net \cup {[call |-> ui.issued + 1, range |-> r, pc |-> "fetch"]}
    /\ UNCHANGED <<storeVars, callVars, pageVars, metricVars, db>>

\* loadData after Promise.all: the results are stored and loadIntakeData is
\* awaited
analyticsDataResolved(c) ==
    /\ c \in net /\ c.pc = "fetch"
    /\ ui' = [ui EXCEPT !.dataOf = c.range]
    /\ net' = (net \ {c}) \cup {[c EXCEPT !.pc = "intake"]}
    /\ UNCHANGED <<storeVars, callVars, pageVars, metricVars, db>>

\* loadData after Promise.all rejected: catch, then finally
analyticsDataFailed(c) ==
    /\ c \in net /\ c.pc = "fetch"
    /\ ui' = [ui EXCEPT !.loading = FALSE]
    /\ net' = net \ {c}
    /\ UNCHANGED <<storeVars, callVars, pageVars, metricVars, db>>

\* loadData after loadIntakeData, which catches its own errors: finally
analyticsIntakeSettled(c) ==
    /\ c \in net /\ c.pc = "intake"
    /\ ui' = [ui EXCEPT !.loading = FALSE, !.intakeOf = c.range]
    /\ net' = net \ {c}
    /\ UNCHANGED <<storeVars, callVars, pageVars, metricVars, db>>

\* Analytics.svelte as constructed: range = 'week', and the reactive
\* statement has called loadData(); dataOf and intakeOf name the range whose
\* results are stored
InitAnalytics ==
    /\ InitPage
    /\ rated = NoOutcome /\ shown = <<>>
    /\ InitMetrics
    /\ ui = [range |-> "week", loading |-> TRUE, issued |-> 1,
             dataOf |-> "none", intakeOf |-> "none"]
    /\ db = <<>>
    /\ net = {[call |-> 1, range |-> "week", pc |-> "fetch"]}

NextAnalytics ==
    \/ \E r \in Ranges : analyticsSelectRange(r)
    \/ \E c \in DataCalls : analyticsDataResolved(c)
    \/ \E c \in DataCalls : analyticsDataFailed(c)
    \/ \E c \in DataCalls : analyticsIntakeSettled(c)

SpecAnalytics == InitAnalytics /\ [][NextAnalytics]_vars

\* --------------------------------------------------- analytics: claims
\* C25: in the analytics view loading is false only when no loadData call
\* is in flight: when the range is changed while an earlier load is still
\* running, loading stays true until the load for the latest range has
\* settled.
C25_LoadingWhileInFlight ==
    ~ui.loading => net = {}

\* ------------------------------------------------ work-type suggestion
\* what the operator types as activity description: empty, at most 10
\* characters, and two texts longer than that
Descriptions == {"", "email", "refactor parser", "answer the email"}

\* the heuristic's answer (a black box): label, confidence tier and score,
\* the score in tenths
SuggestionValues ==
    [suggested_work_type : WorkTypes, confidence : {"high", "medium"}, score : {7, 8}]

NoSuggestion == [present |-> FALSE]

\* a stored suggestion; sentFor is history: the description the request carried
Suggestion(data, lastActivity, sentFor) ==
    [present |-> TRUE, suggested_work_type |-> data.suggested_work_type,
     confidence |-> data.confidence, score |-> data.score,
     lastActivity |-> lastActivity, sentFor |-> sentFor]

\* the variables an event or a reactive statement has invalidated: those
\* with a new value, and the objects it assigned to
Changed(old, new, objects) == { n \in DOMAIN old : old[n] # new[n] } \cup objects

\* $: if (showStartModal) initialWorkType = newSession.work_type
\*    else { hasAutoAppliedSuggestion = false; userChangedWorkType = false;
\*           workTypeSuggestion = null; initialWorkType = "Deep" }
\* depends on showStartModal and newSession
ReactReset(u, dirty) ==
    IF dirty \cap {"showStartModal", "newSession"} = {} THEN u
    ELSE IF u.showStartModal THEN [u EXCEPT !.initialWorkType = u.newSession.work_type]
    ELSE [u EXCEPT !.hasAutoAppliedSuggestion = FALSE, !.userChangedWorkType = FALSE,
                   !.workTypeSuggestion = NoSuggestion, !.initialWorkType = "Deep"]

\* $: if (showStartModal && newSession.work_type !== initialWorkType &&
\*        !hasAutoAppliedSuggestion) userChangedWorkType = true
\* depends on showStartModal, newSession, initialWorkType and
\* hasAutoAppliedSuggestion
ReactUserChanged(u, dirty) ==
    IF dirty \cap {"showStartModal", "newSession", "initialWorkType",
                   "hasAutoAppliedSuggestion"} = {} THEN u
    ELSE IF u.showStartModal /\ u.newSession.work_type # u.initialWorkType
            /\ ~u.hasAutoAppliedSuggestion
         THEN [u EXCEPT !.userChangedWorkType = TRUE]
         ELSE u

\* $: { ... } the debounce: (re)arms or clears suggestionTimeout; depends on
\* newSession, hasAutoAppliedSuggestion, userChangedWorkType, suggestionTimeout
ReactDebounce(u, dirty) ==
    IF dirty \cap {"newSession", "hasAutoAppliedSuggestion", "userChangedWorkType",
                   "suggestionTimeout"} = {} THEN u
    ELSE IF Len(u.newSession.activity_description) > 10
            /\ ~u.hasAutoAppliedSuggestion /\ ~u.userChangedWorkType
         THEN [u EXCEPT !.suggestionTimeout = TRUE]
         ELSE [u EXCEPT !.suggestionTimeout = FALSE,
                        !.workTypeSuggestion =
                            IF Len(u.newSession.activity_description) <= 10
                            THEN NoSuggestion ELSE @]

\* one update of the component: the reactive statements run once each, a
\* statement that assigns a variable before the statements that depend on
\* it, so the reset statement runs before the userChangedWorkType statement
Reactive(old, new, objects) ==
    LET u1 == ReactReset(new, Changed(old, new, objects))
        u2 == ReactUserChanged(u1, Changed(old, u1, objects))
    IN  ReactDebounce(u2, Changed(old, u2, objects))

\* "+ Initialize": showStartModal = true.  manual and applied are history:
\* whether the operator has changed the work type, and how often a
\* suggestion was auto-applied, since the modal was opened
suggestOpenModal ==
    /\ ~ui.showStartModal
    /\ ui' = Reactive(ui, [ui EXCEPT !.showStartModal = TRUE, !.manual = FALSE,
                                     !.applied = 0], {})
    /\ UNCHANGED <<storeVars, callVars, pageVars, metricVars, db, net>>

\* Cancel / close button of the start modal
suggestCloseModal ==
    /\ ui.showStartModal
    /\ ui' = Reactive(ui, [ui EXCEPT !.showStartModal = FALSE], {})
    /\ UNCHANGED <<storeVars, callVars, pageVars, metricVars, db, net>>

\* <input bind:value={newSession.activity_description}>
TypeDescription(text) ==
    /\ ui.showStartModal /\ text # ui.newSession.activity_description
    /\ ui' = Reactive(ui, [ui EXCEPT !.newSession.activity_description = text],
                          {"newSession"})
    /\ UNCHANGED <<storeVars, callVars, pageVars, metricVars, db, net>>

\* <select bind:value={newSession.work_type}>
SelectWorkType(wt) ==
    /\ ui.showStartModal /\ wt # ui.newSession.work_type
    /\ ui' = Reactive(ui, [ui EXCEPT !.newSession.work_type = wt, !.manual = TRUE],
                          {"newSession"})
    /\ UNCHANGED <<storeVars, callVars, pageVars, metricVars, db, net>>

\* the debounce timer fires: suggestWorkType() up to its fetch
DebounceFired ==
    /\ ui.suggestionTimeout
    /\ LET text == ui.newSession.activity_description
           sends == /\ ~ui.hasAutoAppliedSuggestion /\ ~ui.userChangedWorkType
                    /\ text # ""
                    /\ ~(ui.workTypeSuggestion.present
                         /\ ui.workTypeSuggestion.lastActivity = text)
       IN  /\ ui' = [ui EXCEPT !.suggestionTimeout = FALSE,
                               !.suggestingWorkType = IF sends THEN TRUE ELSE @]
           /\ net' = IF sends THEN net \cup {text} ELSE net
    /\ UNCHANGED <<storeVars, callVars, pageVars, metricVars, db>>

\* suggestWorkType() after its fetch, the answer being ok
SuggestionResolved(text, data) ==
    /\ text \in net
    /\ net' = net \ {text}
    /\ LET stores  == ~ui.hasAutoAppliedSuggestion /\ ~ui.userChangedWorkType
           applies == stores /\ data.confidence = "high" /\ data.score > 7
           stored  == IF stores
                      THEN [ui EXCEPT !.workTypeSuggestion =
                               Suggestion(data, ui.newSession.activity_description, text)]
                      ELSE ui
           applied == IF applies
                      THEN [stored EXCEPT !.newSession.work_type = data.suggested_work_type,
                                          !.hasAutoAppliedSuggestion = TRUE,
                                          !.applied = IF ui.showStartModal THEN Min(2, @ + 1) ELSE @,
                                          !.afterManual = @ \/ (ui.showStartModal /\ ui.manual),
                                          !.lastApplied = data]
                      ELSE stored
       IN  ui' = Reactive(ui, [applied EXCEPT !.suggestingWorkType = FALSE],
                              IF applies THEN {"newSession"} ELSE {})
    /\ UNCHANGED <<storeVars, callVars, pageVars, metricVars, db>>

\* suggestWorkType() after its fetch, the request having failed or the
\* answer not being ok
SuggestionFailed(text) ==
    /\ text \in net
    /\ net' = net \ {text}
    /\ ui' = Reactive(ui, [ui EXCEPT !.suggestingWorkType = FALSE], {})
    /\ UNCHANGED <<storeVars, callVars, pageVars, metricVars, db>>

\* App.svelte as constructed; afterManual and lastApplied are history: a
\* suggestion was auto-applied in an open modal after a manual change of the
\* work type, and the answer that was auto-applied last
InitSuggest ==
    /\ InitPage
    /\ rated = NoOutcome /\ shown = <<>>
    /\ InitMetrics
    /\ ui = [showStartModal |-> FALSE,
             newSession |-> [work_type |-> "Deep", activity_description |-> ""],
             initialWorkType |-> "Deep",
             hasAutoAppliedSuggestion |-> FALSE, userChangedWorkType |-> FALSE,
             workTypeSuggestion |-> NoSuggestion, suggestingWorkType |-> FALSE,
             suggestionTimeout |-> FALSE,
             manual |-> FALSE, applied |-> 0, afterManual |-> FALSE,
             lastApplied |-> NoSuggestion]
    /\ db = <<>>
    /\ net = {}

NextSuggest ==
    \/ suggestOpenModal
    \/ suggestCloseModal
    \/ \E text \in Descriptions : TypeDescription(text)
    \/ \E wt \in WorkTypes : SelectWorkType(wt)
    \/ DebounceFired
    \/ \E text \in Descriptions, data \in SuggestionValues : SuggestionResolved(text, data)
    \/ \E text \in Descriptions : SuggestionFailed(text)

SpecSuggest == InitSuggest /\ [][NextSuggest]_vars

\* ------------------------------------------ work-type suggestion: claims
\* C27: a work-type suggestion is auto-applied to the new session only if
\* its confidence is 'high' and its score exceeds 0.7, at most once per
\* opening of the start modal, and never after the operator has manually
\* changed the work type in that modal.
C27_AutoApplyGuarded ==
    /\ ui.applied <= 1
    /\ ~ui.afterManual
    /\ ui.lastApplied # NoSuggestion =>
         ui.lastApplied.confidence = "high" /\ ui.lastApplied.score > 7

\* C28: whenever a work-type suggestion is stored, its lastActivity field
\* equals the activity description that was sent in the request that
\* produced it, also when the description was edited while the request was
\* in flight.
C28_LastActivityIsSent ==
    ui.workTypeSuggestion.present =>
       ui.workTypeSuggestion.lastActivity = ui.workTypeSuggestion.sentFor

\* ---------------------------------------------- biological-state panel
MaxClicks == 3        \* clicks on Confirm

Meals == {"breakfast", "lunch", "dinner"}

\* the glasses the panel draws
WaterGlasses == 8

\* an intake record: the water counter and per meal its time, 0 for null
IntakeRecord(water, breakfast) ==
    [water_count |-> water, breakfast |-> breakfast, lunch |-> 0, dinner |-> 0]

NoConfirm == [type |-> "none", action |-> "none", value |-> "none"]

\* requestWater()
requestWater ==
    /\ ui.confirmMode = NoConfirm
    /\ ui.intake.water_count < WaterGlasses
    /\ ui' = [ui EXCEPT !.confirmMode = [type |-> "water", action |-> "add", value |-> "none"]]
    /\ UNCHANGED <<storeVars, callVars, pageVars, metricVars, db, net>>

\* requestRemoveWater()
requestRemoveWater ==
    /\ ui.confirmMode = NoConfirm
    /\ ui.intake.water_count > 0
    /\ ui' = [ui EXCEPT !.confirmMode = [type |-> "water", action |-> "remove", value |-> "none"]]
    /\ UNCHANGED <<storeVars, callVars, pageVars, metricVars, db, net>>

\* requestMeal(type)
requestMeal(type) ==
    /\ ui.confirmMode = NoConfirm
    /\ ui.intake[type] = 0
    /\ ui' = [ui EXCEPT !.confirmMode = [type |-> "meal", action |-> "add", value |-> type]]
    /\ UNCHANGED <<storeVars, callVars, pageVars, metricVars, db, net>>

\* Cancel button of the confirmation overlay
cancelConfirm ==
    /\ ui.confirmMode # NoConfirm
    /\ ui' = [ui EXCEPT !.confirmMode = NoConfirm]
    /\ UNCHANGED <<storeVars, callVars, pageVars, metricVars, db, net>>

\* confirmAction() up to its await; removing a glass sends no request and
\* runs to the end.  The overlay stays while a request is pending, so the
\* button can be clicked again.  clicks counts the clicks; the time of a
\* click is its number.
confirmAction ==
    /\ ui.confirmMode # NoConfirm /\ ui.clicks < MaxClicks
    /\ LET click == ui.clicks + 1
           mode  == ui.confirmMode
       IN  IF mode.type = "water" /\ mode.action = "add"
           THEN /\ ui' = [ui EXCEPT !.clicks = click, !.intake.water_count = @ + 1]
                /\ net' = net \cup {[click |-> click, path |-> "/intake/water", type |-> "none"]}
           ELSE IF mode.type = "water"
           THEN /\ ui' = [ui EXCEPT !.clicks = click, !.intake.water_count = @ - 1,
                                    !.confirmMode = NoConfirm]
                /\ net' = net
           ELSE /\ ui' = [ui EXCEPT !.clicks = click, !.intake[mode.value] = click]
                /\ net' = net \cup {[click |-> click, path |-> "/intake/meal", type |-> mode.value]}
    /\ UNCHANGED <<storeVars, callVars, pageVars, metricVars, db>>

\* the requests of confirmAction
IntakePosts ==
    [click : 1..MaxClicks, path : {"/intake/water"}, type : {"none"}]
      \cup [click : 1..MaxClicks, path : {"/intake/meal"}, type : Meals]

\* POST /intake/water increments the day's counter, POST /intake/meal sets
\* the meal's time; then confirmAction after its await: confirmMode = null
IntakePostResolved(r) ==
    /\ r \in net
    /\ net' = net \ {r}
    /\ db' = IF r.path = "/intake/water" THEN [db EXCEPT !.water_count = @ + 1]
             ELSE [db EXCEPT ![r.type] = r.click]
    /\ ui' = [ui EXCEPT !.confirmMode = NoConfirm]
    /\ UNCHANGED <<storeVars, callVars, pageVars, metricVars>>

\* the request fails: post() throws out of confirmAction
IntakePostFailed(r) ==
    /\ r \in net
    /\ net' = net \ {r}
    /\ UNCHANGED <<storeVars, callVars, pageVars, metricVars, ui, db>>

\* the dashboard's refreshData() has replaced todayIntake:
\* $: if (intakeData) intake = intakeData
IntakeDataChanged ==
    /\ ui.intake # db
    /\ ui' = [ui EXCEPT !.intake = db]
    /\ UNCHANGED <<storeVars, callVars, pageVars, metricVars, db, net>>

\* the panel as mounted, showing the server's record of the day
InitPanel ==
    /\ InitPage
    /\ rated = NoOutcome /\ shown = <<>>
    /\ InitMetrics
    /\ \E water \in {0, WaterGlasses - 1, WaterGlasses}, breakfast \in {0, 1} :
         /\ db = IntakeRecord(water, breakfast)
         /\ ui = [intake |-> IntakeRecord(water, breakfast), confirmMode |-> NoConfirm,
                  clicks |-> breakfast]
    /\ net = {}

NextPanel ==
    \/ requestWater
    \/ requestRemoveWater
    \/ \E type \in Meals : requestMeal(type)
    \/ cancelConfirm
    \/ confirmAction
    \/ \E r \in IntakePosts : IntakePostResolved(r)
    \/ \E r \in IntakePosts : IntakePostFailed(r)
    \/ IntakeDataChanged

SpecPanel == InitPanel /\ [][NextPanel]_vars

\* --------------------------------------- biological-state panel: claims
\* C29: starting from a water count in 0..8 the count stays within 0..8 and
\* an already logged meal time is never overwritten by a click, for every
\* sequence of request, cancel and confirm clicks, a second confirm click
\* while the request of the first is pending included.
C29_CountAndMealsKept ==
    [][ /\ ui'.intake.water_count \in 0..8
        /\ \A m \in Meals :
             (ui.intake[m] # 0 /\ ui'.clicks # ui.clicks) => ui'.intake[m] = ui.intake[m]
      ]_vars

\* C30: after confirmed water add and remove actions whose requests have
\* settled, the water count shown by the panel equals the water count
\* stored by the server for that date; when an add request fails, the shown
\* count is not left incremented.
C30_ShownCountIsStored ==
    net = {} => ui.intake.water_count = db.water_count

====
